---- MODULE Spec2Model ----
(***************************************************************************)
(* A model of dywoq/miniasm's lexer engine (package lexer), its cursor     *)
(* (type context), the default tokenizer chain (package tokenizer) and the *)
(* token package.                                                           *)
(*                                                                          *)
(* A byte is a short string, a Go string is a sequence of bytes.            *)
(* A *token.Position is a record whose field alias says whether the        *)
(* pointer is l.position itself (context.Position returns the lexer's own  *)
(* pointer) or a copy made by the caller.                                  *)
(***************************************************************************)
EXTENDS Integers, Sequences, FiniteSets, TLC

\* ------------------------------------------------------------------ bounds

\* Longest buffer handed to New / NewDebug.
MaxLen == 3
\* Longest buffer handed to SetReader.
MaxReaderLen == 1
\* Most tokenizers registered one by one through AppendTokenizer.
MaxCustom == 1
\* Do is not called again once the cursor's line has passed this.
MaxLine == 4
\* Most Advance and Backward calls made on a context directly.
MaxMoves == 6
MaxTokens == 3
MaxElems == 2
MaxArgs == 2
MaxInstrs == 2
MaxMinis == 2
MaxDo == 2

\* ------------------------------------------------------------------ bytes

\* context.Current's sentinel at end of input (byte 0).
NUL == "NUL"
QUOTE == "\""
\* The backtick byte (0x60), written by name.
BACKTICK == "BACKTICK"
NEWLINE == "\n"
TAB == "\t"

\* The bytes buffers are made of: two letters, a digit, a separator, the
\* string quote, two whitespace bytes and a byte no tokenizer knows.
Alphabet == {"a", "t", "1", ";", QUOTE, " ", NEWLINE, "@"}

IsLetter(c) == c \in {"a", "t"}
IsDigit(c) == c \in {"1"}
\* unicode.IsSpace on the bytes the buffers are made of.
IsSpace(c) == c \in {" ", NEWLINE, TAB}

\* F applied to the value of e, which is computed once.
Bind(e, F(_)) == CHOOSE v \in {F(x) : x \in {e}} : TRUE

RECURSIVE SeqsUpTo(_, _)
SeqsUpTo(S, n) ==
  IF n = 0 THEN {<<>>}
  ELSE LET shorter == SeqsUpTo(S, n - 1)
       IN shorter \cup {Append(s, c) : s \in {x \in shorter : Len(x) = n - 1}, c \in S}

Inputs == SeqsUpTo(Alphabet, MaxLen)
\* The bytes of character literals: the backtick, a letter, a digit, a space.
CharAlphabet == {BACKTICK, "a", "1", " "}
CharInputs == SeqsUpTo(CharAlphabet, MaxLen)
\* The buffers a reader can hold: a byte a tokenizer claims, and one none does.
ReaderAlphabet == {"a", "@"}
\* The bytes of buffers with whitespace of every kind between their tokens.
SpaceAlphabet == {"a", "1", ";", QUOTE, " ", TAB, NEWLINE}
SpaceInputs == SeqsUpTo(SpaceAlphabet, MaxLen)
Readers == SeqsUpTo(ReaderAlphabet, MaxReaderLen)
\* The buffers slices are taken from.
SliceInputs == SeqsUpTo(ReaderAlphabet, MaxLen)

\* ------------------------------------------------------------------ token

Identifier == "identifier"
Number == "number"
String == "string"
Char == "char"
Separator == "separator"
SpecialFunction == "special-function"
Type == "type"

Separators == {<<";">>, <<",">>, <<"[">>, <<"]">>, <<"{">>, <<"}">>, <<"(">>, <<")">>, <<"^">>}
SpecialFunctions == {<<"a", "t">>}
\* token.Types is not among the sources; no type name is spelled with the
\* letters of Alphabet.
Types == {}

MaxIdentifierLen == 255

\* token.IsIdentifier without its limit on the length.
IsIdentifier_NoLengthLimit(str) ==
  /\ Len(str) # 0
  /\ str \notin Separators
  /\ str \notin SpecialFunctions
  /\ ~IsDigit(str[1])
  /\ \A i \in 1..Len(str) : IsLetter(str[i]) \/ IsDigit(str[i]) \/ str[i] = "_"

IsIdentifier(str) ==
  /\ Len(str) # 0
  /\ Len(str) <= MaxIdentifierLen
  /\ str \notin Separators
  /\ str \notin SpecialFunctions
  /\ ~IsDigit(str[1])
  /\ \A i \in 1..Len(str) : IsLetter(str[i]) \/ IsDigit(str[i]) \/ str[i] = "_"

\* The lexer's own position object (newBase) and a caller's copy of it.
InitPosition == [alias |-> TRUE, Line |-> 1, Column |-> 1, Position |-> 0]
Alias(p) == [p EXCEPT !.alias = TRUE]
Copy(p) == [p EXCEPT !.alias = FALSE]

\* token.New: the token keeps the pointer it is given.
New(lit, kind, pos) == [Literal |-> lit, Kind |-> kind, Position |-> pos]
\* A nil *token.Token.
NilTok == [Literal |-> <<>>, Kind |-> "nil", Position |-> Copy([InitPosition EXCEPT !.Line = 0, !.Column = 0])]

\* A token as a reader of the token list sees it: an aliased position reads
\* the lexer's current position p.
Deref(tok, p) ==
  IF tok.Position.alias /\ tok.Kind # "nil" THEN [tok EXCEPT !.Position = Copy(p)] ELSE tok

\* ------------------------------------------------------------------ errors

NoErr == [msg |-> "", filename |-> "", Line |-> 0, Column |-> 0]
makeError(str, fname, p) == [msg |-> str, filename |-> fname, Line |-> p.Line, Column |-> p.Column]

\* ------------------------------------------------------------------ cursor

Eof(b, p) == p.Position >= Len(b)
Sof(p) == p.Position <= 0
Current(b, p) == IF Eof(b, p) THEN NUL ELSE b[p.Position + 1]

\* context.Advance without its Eof check.
Advance_IgnoresEof(b, p) ==
  LET q == [p EXCEPT !.Position = @ + 1]
      cur == Current(b, q)
  IN IF cur # NUL /\ cur = NEWLINE
     THEN [q EXCEPT !.Line = @ + 1, !.Column = 1]
     ELSE [q EXCEPT !.Column = @ + 1]

Advance(b, p) ==
  IF Eof(b, p) THEN p
  ELSE LET q == [p EXCEPT !.Position = @ + 1]
           cur == Current(b, q)
       IN IF cur # NUL /\ cur = NEWLINE
          THEN [q EXCEPT !.Line = @ + 1, !.Column = 1]
          ELSE [q EXCEPT !.Column = @ + 1]

\* The column Backward detects: 1 plus the bytes between the previous
\* newline (or the start) and offset pos.
RECURSIVE DetectColumn(_, _, _)
DetectColumn(b, i, col) ==
  IF i < 0 THEN col
  ELSE IF b[i + 1] = NEWLINE THEN col
  ELSE DetectColumn(b, i - 1, col + 1)

Backward(b, p) ==
  IF Sof(p) THEN p
  ELSE LET q == [p EXCEPT !.Position = @ - 1]
           cur == Current(b, q)
       IN IF cur = NEWLINE
          THEN [q EXCEPT !.Line = @ - 1, !.Column = DetectColumn(b, q.Position - 1, 1)]
          ELSE IF q.Column > 1 THEN [q EXCEPT !.Column = @ - 1] ELSE q

RECURSIVE BackwardN(_, _, _)
BackwardN(b, p, n) ==
  IF n <= 0 THEN p ELSE Bind(Backward(b, p), LAMBDA q : BackwardN(b, q, n - 1))

\* The bytes c.l.bytes[start:end] taken from the start of the buffer instead.
SubStr_FromStart(b, start, end) == SubSeq(b, 1, end - start)

SubStr(b, start, end) == SubSeq(b, start + 1, end)

Slice(b, fname, p, start, end) ==
  IF start > end THEN [str |-> <<>>, err |-> makeError("Start is higher than end", fname, p)]
  ELSE IF start < 0 THEN [str |-> <<>>, err |-> makeError("Start is negative", fname, p)]
  ELSE IF end > Len(b) THEN [str |-> <<>>, err |-> makeError("End is out of bounds", fname, p)]
  ELSE [str |-> SubStr(b, start, end), err |-> NoErr]

\* ------------------------------------------------------------------ tokenizers
\* A tokenizer reads and moves the cursor of the lexer it is given; as an
\* operator it takes the buffer b, the file name fname and the cursor p, and
\* returns what the Go function returns (tok, noMatch, err) and the cursor it
\* leaves (pos).

Result(tok, noMatch, err, pos) == [tok |-> tok, noMatch |-> noMatch, err |-> err, pos |-> pos]

IdentifierByte(cur) == ~(cur = NUL \/ (~IsLetter(cur) /\ cur # "_" /\ ~IsDigit(cur)))

RECURSIVE ScanIdentifier(_, _)
ScanIdentifier(b, p) ==
  IF ~IdentifierByte(Current(b, p)) THEN p
  ELSE Bind(Advance(b, p), LAMBDA q : ScanIdentifier(b, q))

DefaultIdentifier(b, fname, p) ==
  LET cur == Current(b, p)
  IN IF cur = NUL \/ (~IsLetter(cur) /\ cur # "_")
     THEN Result(NilTok, TRUE, NoErr, p)
     ELSE LET start == p.Position
              q == ScanIdentifier(b, p)
              end == q.Position
              s == Slice(b, fname, q, start, end)
          IN IF s.err # NoErr THEN Result(NilTok, FALSE, s.err, q)
             ELSE IF ~IsIdentifier(s.str)
                  THEN Result(NilTok, TRUE, s.err, BackwardN(b, q, end - start))
                  ELSE Result(New(s.str, Identifier, q), FALSE, NoErr, q)

RECURSIVE ScanNumber(_, _)
ScanNumber(b, p) ==
  IF Current(b, p) = NUL \/ ~IsDigit(Current(b, p)) THEN p
  ELSE Bind(Advance(b, p), LAMBDA q : ScanNumber(b, q))

DefaultNumber(b, fname, p) ==
  LET cur == Current(b, p)
  IN IF cur = NUL \/ ~IsDigit(cur)
     THEN Result(NilTok, TRUE, NoErr, p)
     ELSE LET start == p.Position
              q == ScanNumber(b, p)
              end == q.Position
              s == Slice(b, fname, q, start, end)
          IN IF s.err # NoErr THEN Result(NilTok, FALSE, s.err, q)
             ELSE Result(New(s.str, Number, q), FALSE, NoErr, q)

\* Default.Separator returning its token without c.Advance().
DefaultSeparator_NoAdvance(b, fname, p) ==
  LET cur == Current(b, p)
  IN IF cur = NUL \/ <<cur>> \notin Separators
     THEN Result(NilTok, TRUE, NoErr, p)
     ELSE Result(New(<<cur>>, Separator, p), FALSE, NoErr, p)

DefaultSeparator(b, fname, p) ==
  LET cur == Current(b, p)
  IN IF cur = NUL \/ <<cur>> \notin Separators
     THEN Result(NilTok, TRUE, NoErr, p)
     ELSE LET q == Advance(b, p)
          IN Result(New(<<cur>>, Separator, q), FALSE, NoErr, q)

\* The loop of Default.String: advance first, then look at the byte.
RECURSIVE ScanString(_, _)
ScanString(b, p) ==
  Bind(Advance(b, p), LAMBDA q :
    IF Eof(b, q) THEN [eof |-> TRUE, pos |-> q]
    ELSE IF Current(b, q) = QUOTE THEN [eof |-> FALSE, pos |-> q]
    ELSE ScanString(b, q))

DefaultString(b, fname, p) ==
  LET cur == Current(b, p)
  IN IF cur = NUL \/ cur # QUOTE
     THEN Result(NilTok, TRUE, NoErr, p)
     ELSE LET opened == Advance(b, p)
              start == opened.Position
              scan == ScanString(b, opened)
          IN IF scan.eof
             THEN Result(NilTok, FALSE,
                         makeError("String(): Found EOF when tokenizing string", fname, scan.pos),
                         scan.pos)
             ELSE LET end == scan.pos.Position
                      q == Advance(b, scan.pos)
                      s == Slice(b, fname, q, start, end)
                  IN IF s.err # NoErr THEN Result(NilTok, FALSE, s.err, q)
                     ELSE Result(New(s.str, String, q), FALSE, NoErr, q)

\* Default.Char without its check of the closing backtick.
DefaultChar_NoClosingCheck(b, fname, p) ==
  LET cur == Current(b, p)
  IN IF cur = NUL \/ cur # BACKTICK
     THEN Result(NilTok, TRUE, NoErr, p)
     ELSE LET p1 == Advance(b, p)
              char == Current(b, p1)
          IN IF ~IsLetter(char)
             THEN Result(NilTok, FALSE, makeError("Char(): Expected letter", fname, p1), p1)
             ELSE LET q == Advance(b, Advance(b, p1))
                  IN Result(New(<<char>>, Char, q), FALSE, NoErr, q)

DefaultChar(b, fname, p) ==
  LET cur == Current(b, p)
  IN IF cur = NUL \/ cur # BACKTICK
     THEN Result(NilTok, TRUE, NoErr, p)
     ELSE LET p1 == Advance(b, p)
              char == Current(b, p1)
          IN IF ~IsLetter(char)
             THEN Result(NilTok, FALSE, makeError("Char(): Expected letter", fname, p1), p1)
             ELSE LET p2 == Advance(b, p1)
                  IN IF Current(b, p2) # BACKTICK \/ Eof(b, p2)
                     THEN Result(NilTok, FALSE,
                                 makeError("Char(): Found EOF when tokenizing character", fname, p2),
                                 p2)
                     ELSE LET q == Advance(b, p2)
                          IN Result(New(<<char>>, Char, q), FALSE, NoErr, q)

\* The loop of Default.Type: advance first, then look at the byte.
RECURSIVE ScanType(_, _)
ScanType(b, p) ==
  Bind(Advance(b, p), LAMBDA q :
    IF Eof(b, q) \/ ~IsLetter(Current(b, q)) THEN q ELSE ScanType(b, q))

DefaultType(b, fname, p) ==
  LET cur == Current(b, p)
  IN IF cur = NUL \/ ~IsLetter(cur)
     THEN Result(NilTok, TRUE, NoErr, p)
     ELSE LET start == p.Position
              q == ScanType(b, p)
              end == q.Position
              s == Slice(b, fname, q, start, end)
          IN IF s.err # NoErr THEN Result(NilTok, FALSE, s.err, q)
             ELSE IF s.str \notin Types
                  THEN Result(NilTok, TRUE, NoErr, BackwardN(b, q, end - start))
                  ELSE Result(New(s.str, Type, q), FALSE, NoErr, q)

\* The tests' tokenizers: one that always declines, and one that claims a
\* single byte and gives its token a copy of the position after its Advance.
dummyTokenizer(b, fname, p) == Result(NilTok, TRUE, NoErr, p)

\* The tests' single-byte tokenizer copying the position before its Advance.
testTokenizer_CopiesBefore(matchByte, tokKind, b, fname, p) ==
  IF Eof(b, p) THEN Result(NilTok, FALSE, NoErr, p)
  ELSE IF Current(b, p) # matchByte THEN Result(NilTok, TRUE, NoErr, p)
  ELSE Result(New(<<matchByte>>, tokKind, Copy(p)), FALSE, NoErr, Advance(b, p))

testTokenizer(matchByte, tokKind, b, fname, p) ==
  IF Eof(b, p) THEN Result(NilTok, FALSE, NoErr, p)
  ELSE IF Current(b, p) # matchByte THEN Result(NilTok, TRUE, NoErr, p)
  ELSE LET q == Advance(b, p)
       IN Result(New(<<matchByte>>, tokKind, Copy(q)), FALSE, NoErr, q)

\* What Default.Append registers, in its order.
DefaultChain == <<"Identifier", "Number", "Separator", "String", "Char", "Type">>
\* What the tests register one by one.
CustomTokenizers == {"dummyTokenizer", "testTokenizer_a"}

\* The call tokenizer(c) of Lexer.tokenize.
Apply(name, b, fname, p) ==
  CASE name = "Identifier" -> DefaultIdentifier(b, fname, p)
    [] name = "Number" -> DefaultNumber(b, fname, p)
    [] name = "Separator" -> DefaultSeparator(b, fname, p)
    [] name = "String" -> DefaultString(b, fname, p)
    [] name = "Char" -> DefaultChar(b, fname, p)
    [] name = "Type" -> DefaultType(b, fname, p)
    [] name = "dummyTokenizer" -> dummyTokenizer(b, fname, p)
    [] name = "testTokenizer_a" -> testTokenizer("a", Identifier, b, fname, p)

\* ------------------------------------------------------------------ lexer

\* Lexer.skipWhitespace advancing once at most.
skipWhitespace_SkipsOne(b, p) ==
  LET cur == Current(b, p)
  IN IF cur # NUL /\ IsSpace(cur) THEN Advance(b, p) ELSE p

RECURSIVE skipWhitespace(_, _)
skipWhitespace(b, p) ==
  LET cur == Current(b, p)
  IN IF cur # NUL /\ IsSpace(cur)
     THEN Bind(Advance(b, p), LAMBDA q : skipWhitespace(b, q))
     ELSE p

\* One call tokenizer(c) as Lexer.tokenize makes it: which tokenizer, at which
\* place of the chain, the cursor before it and what it returned.
Call(name, index, before, res) == [name |-> name, index |-> index, before |-> before, res |-> res]

\* Lexer.tokenize ranging over l.tokenizers from its last element to its first.
RECURSIVE tokenizeFrom_Reversed(_, _, _, _, _, _)
tokenizeFrom_Reversed(chain, i, b, fname, p, calls) ==
  IF i > Len(chain)
  THEN [tok |-> NilTok, err |-> makeError("Unknown character", fname, p), pos |-> p, calls |-> calls]
  ELSE Bind(Apply(chain[Len(chain) + 1 - i], b, fname, p), LAMBDA r :
         Bind(Append(calls, Call(chain[Len(chain) + 1 - i], i, p, r)), LAMBDA made :
           IF r.err # NoErr THEN [tok |-> NilTok, err |-> r.err, pos |-> r.pos, calls |-> made]
           ELSE IF r.noMatch THEN tokenizeFrom_Reversed(chain, i + 1, b, fname, r.pos, made)
           ELSE [tok |-> r.tok, err |-> NoErr, pos |-> r.pos, calls |-> made]))

\* Lexer.tokenize returning a nil token and no error when every tokenizer
\* has declined.
RECURSIVE tokenizeFrom_NoUnknownCharacter(_, _, _, _, _, _)
tokenizeFrom_NoUnknownCharacter(chain, i, b, fname, p, calls) ==
  IF i > Len(chain)
  THEN [tok |-> NilTok, err |-> NoErr, pos |-> p, calls |-> calls]
  ELSE Bind(Apply(chain[i], b, fname, p), LAMBDA r :
         Bind(Append(calls, Call(chain[i], i, p, r)), LAMBDA made :
           IF r.err # NoErr THEN [tok |-> NilTok, err |-> r.err, pos |-> r.pos, calls |-> made]
           ELSE IF r.noMatch
                THEN tokenizeFrom_NoUnknownCharacter(chain, i + 1, b, fname, r.pos, made)
           ELSE [tok |-> r.tok, err |-> NoErr, pos |-> r.pos, calls |-> made]))

RECURSIVE tokenizeFrom(_, _, _, _, _, _)
tokenizeFrom(chain, i, b, fname, p, calls) ==
  IF i > Len(chain)
  THEN [tok |-> NilTok, err |-> makeError("Unknown character", fname, p), pos |-> p, calls |-> calls]
  ELSE Bind(Apply(chain[i], b, fname, p), LAMBDA r :
         Bind(Append(calls, Call(chain[i], i, p, r)), LAMBDA made :
           IF r.err # NoErr THEN [tok |-> NilTok, err |-> r.err, pos |-> r.pos, calls |-> made]
           ELSE IF r.noMatch THEN tokenizeFrom(chain, i + 1, b, fname, r.pos, made)
           ELSE [tok |-> r.tok, err |-> NoErr, pos |-> r.pos, calls |-> made]))

tokenize(chain, b, fname, p) ==
  Bind(p, LAMBDA at : tokenizeFrom(chain, 1, b, fname, at, <<>>))

\* One pass of the loop body that skips whitespace after an error too.
Iteration_SkipsAfterError(chain, b, fname, p) ==
  Bind(tokenize(chain, b, fname, skipWhitespace(b, p)), LAMBDA t :
    [t EXCEPT !.pos = skipWhitespace(b, t.pos)])

\* One pass of the body of Lexer.Do's loop.
Iteration(chain, b, fname, p) ==
  Bind(tokenize(chain, b, fname, skipWhitespace(b, p)), LAMBDA t :
    IF t.err # NoErr THEN t ELSE [t EXCEPT !.pos = skipWhitespace(b, t.pos)])

\* What a call returns: kind is "ok", "err" (a returned error) or "panic".
Ret(kind, toks, err) == [kind |-> kind, tokens |-> toks, err |-> err]
NoRet == Ret("none", <<>>, NoErr)
Panic(str) == Ret("panic", <<>>, makeError(str, "", [Line |-> 0, Column |-> 0]))
ReadError == [msg |-> "read error", filename |-> "", Line |-> 0, Column |-> 0]

\* Lexer.Do's loop, run to its end from cursor p with the tokens made so far.
RECURSIVE DoLoop(_, _, _, _, _)
DoLoop(chain, b, fname, p, toks) ==
  IF Eof(b, p) THEN [ret |-> Ret("ok", toks, NoErr), pos |-> p]
  ELSE Bind(Iteration(chain, b, fname, p), LAMBDA it :
         IF it.err # NoErr THEN [ret |-> Ret("err", <<>>, it.err), pos |-> it.pos]
         ELSE Bind(Append(toks, it.tok), LAMBDA made :
                DoLoop(chain, b, fname, it.pos, made)))

\* ------------------------------------------------------------------ ast

astTree(topLevel) == [node |-> "Tree", TopLevel |-> topLevel]
astTopLevel(identifier, expr) ==
  [node |-> "TopLevel", Identifier |-> identifier, Expression |-> expr]
astValue(lit, kind) == [node |-> "Value", Literal |-> lit, Kind |-> kind]
astReferenceToIdentifier(identifier) ==
  [node |-> "ReferenceToIdentifier", Identifier |-> identifier]
astFunction(args, body) == [node |-> "Function", Args |-> args, Body |-> body]
astFunctionArgument(name, variadic) ==
  [node |-> "FunctionArgument", Name |-> name, Variadic |-> variadic]
astInstruction(name, args) == [node |-> "Instruction", Name |-> name, Args |-> args]
astArray(elements, fixed, fixedSize) ==
  [node |-> "Array", Elements |-> elements, Fixed |-> fixed, FixedSize |-> fixedSize]
astSpecialFunction(name, args) == [node |-> "SpecialFunction", Name |-> name, Args |-> args]
\* A nil ast.Node.
NilNode == [node |-> "nil"]

\* ------------------------------------------------------------------ parser context

\* The context of a parser: p.tokens and p.filename; p.pos is the argument i
\* of the operators below, and the pos field of what they return.
ParserContext(toks, fname) == [tokens |-> toks, filename |-> fname]

parserMakeError(str, fname, pos) ==
  [msg |-> str, filename |-> fname, Line |-> pos.Line, Column |-> pos.Column]

ParserIsEnd(c, i) == i >= Len(c.tokens)
ParserCurrent(c, i) == IF ParserIsEnd(c, i) THEN NilTok ELSE c.tokens[i + 1]
ParserAdvance(c, i) == IF ParserIsEnd(c, i) THEN i ELSE i + 1

\* What a mini parser, or a part of one, returns, and the cursor it leaves:
\* a node, a decline, an error, or a run-time panic.
ParseOk(n, i) == [kind |-> "ok", node |-> n, err |-> NoErr, pos |-> i]
ParseNoMatch(i) == [kind |-> "nomatch", node |-> NilNode, err |-> NoErr, pos |-> i]
ParseErr(e, i) == [kind |-> "err", node |-> NilNode, err |-> e, pos |-> i]
ParsePanic(str, i) ==
  [kind |-> "panic", node |-> NilNode,
   err |-> parserMakeError(str, "", [Line |-> 0, Column |-> 0]), pos |-> i]
IndexOutOfRange == "index out of range"
NilDereference == "nil pointer dereference"

Expected(tok, ok, i, panics) == [tok |-> tok, ok |-> ok, pos |-> i, panic |-> panics]

\* context.ExpectLiteral that advances whatever the token is.
ExpectLiteral_AlwaysAdvances(c, i, lit) ==
  IF i >= Len(c.tokens) THEN Expected(NilTok, FALSE, i, TRUE)
  ELSE IF c.tokens[i + 1].Literal # lit THEN Expected(NilTok, FALSE, ParserAdvance(c, i), FALSE)
  ELSE Expected(c.tokens[i + 1], TRUE, ParserAdvance(c, i), FALSE)

\* c.p.tokens[c.p.pos] is read before any test of the end of the list.
ExpectLiteral(c, i, lit) ==
  IF i >= Len(c.tokens) THEN Expected(NilTok, FALSE, i, TRUE)
  ELSE IF c.tokens[i + 1].Literal # lit THEN Expected(NilTok, FALSE, i, FALSE)
  ELSE Expected(c.tokens[i + 1], TRUE, ParserAdvance(c, i), FALSE)

ExpectKind(c, i, kind) ==
  IF i >= Len(c.tokens) THEN Expected(NilTok, FALSE, i, TRUE)
  ELSE IF c.tokens[i + 1].Kind # kind THEN Expected(NilTok, FALSE, i, FALSE)
  ELSE Expected(c.tokens[i + 1], TRUE, ParserAdvance(c, i), FALSE)

\* c.NewError(str, c.Current().Position): Current is nil at the end.
ErrorAtCurrent(c, i, str) ==
  IF ParserIsEnd(c, i) THEN ParsePanic(NilDereference, i)
  ELSE ParseErr(parserMakeError(str, c.filename, ParserCurrent(c, i).Position), i)

\* ------------------------------------------------------------------ strconv

DigitChars == <<"0", "1", "2", "3", "4", "5", "6", "7", "8", "9">>
IsDecimal(ch) == \E d \in 1..Len(DigitChars) : DigitChars[d] = ch
DigitValue(ch) == (CHOOSE d \in 1..Len(DigitChars) : DigitChars[d] = ch) - 1

RECURSIVE Decimal(_, _)
Decimal(str, n) ==
  IF n = 0 THEN 0 ELSE 10 * Decimal(str, n - 1) + DigitValue(str[n])

\* strconv.Atoi on literals short enough to fit an int: an optional sign,
\* then one or more decimal digits.
Atoi(str) ==
  LET signed == Len(str) > 0 /\ str[1] \in {"+", "-"}
      digits == IF signed THEN Tail(str) ELSE str
  IN IF Len(digits) = 0 \/ \E k \in 1..Len(digits) : ~IsDecimal(digits[k])
     THEN [n |-> 0, ok |-> FALSE]
     ELSE [n |-> IF signed /\ str[1] = "-" THEN 0 - Decimal(digits, Len(digits))
                 ELSE Decimal(digits, Len(digits)),
           ok |-> TRUE]

\* ------------------------------------------------------------------ mini parsers

ValueExpect == <<Char, Number, String>>

RECURSIVE ValueFrom(_, _, _)
RECURSIVE MiniExpression(_, _)
RECURSIVE SpecialFunctionArgs(_, _, _)
RECURSIVE InstructionArgs(_, _, _)
RECURSIVE InstructionArgs_Reversed(_, _, _)
RECURSIVE FunctionBodyLoop(_, _, _)
RECURSIVE FunctionArgsLoop(_, _, _)
RECURSIVE ArrayElements(_, _, _)

\* The loop of Default.Value from its k-th expected kind, and what follows.
ValueFrom(c, i, k) ==
  IF k > Len(ValueExpect) THEN ParsePanic(NilDereference, i)
  ELSE Bind(ExpectKind(c, i, ValueExpect[k]), LAMBDA e :
         IF e.panic THEN ParsePanic(IndexOutOfRange, i)
         ELSE IF e.ok THEN ParseOk(astValue(e.tok.Literal, e.tok.Kind), e.pos)
         ELSE ValueFrom(c, i, k + 1))

MiniValue(c, i) == ValueFrom(c, i, 1)

MiniReferenceToIdentifier(c, i) ==
  Bind(ExpectKind(c, i, Identifier), LAMBDA e :
    IF e.panic THEN ParsePanic(IndexOutOfRange, i)
    ELSE IF ~e.ok THEN ErrorAtCurrent(c, i, "Expected identifier")
    ELSE ParseOk(astReferenceToIdentifier(e.tok.Literal), e.pos))

\* The loop of Default.SpecialFunction with the arguments parsed so far.
SpecialFunctionArgs(c, i, args) ==
  IF ParserIsEnd(c, i) THEN ParsePanic(NilDereference, i)
  ELSE IF ParserCurrent(c, i).Literal = <<")">> THEN ParseOk(args, ParserAdvance(c, i))
  ELSE Bind(MiniExpression(c, i), LAMBDA x :
         IF x.kind # "ok" THEN x
         ELSE IF ParserIsEnd(c, x.pos) THEN ParsePanic(NilDereference, x.pos)
         ELSE IF ParserCurrent(c, x.pos).Literal = <<",">>
         THEN SpecialFunctionArgs(c, ParserAdvance(c, x.pos), Append(args, x.node))
         ELSE IF ParserCurrent(c, x.pos).Literal = <<")">>
         THEN ParseOk(Append(args, x.node), ParserAdvance(c, x.pos))
         ELSE ErrorAtCurrent(c, x.pos, "Expected ',' or ';' after special function argument\n"))

MiniSpecialFunction(c, i) ==
  Bind(ExpectKind(c, i, SpecialFunction), LAMBDA name :
    IF name.panic THEN ParsePanic(IndexOutOfRange, i)
    ELSE IF ~name.ok THEN ErrorAtCurrent(c, i, "Expected special function name")
    ELSE Bind(ExpectLiteral(c, name.pos, <<"(">>), LAMBDA open :
           IF open.panic THEN ParsePanic(IndexOutOfRange, name.pos)
           ELSE IF ~open.ok
           THEN ErrorAtCurrent(c, name.pos, "Expected opening '(' after special function name")
           ELSE Bind(SpecialFunctionArgs(c, open.pos, <<>>), LAMBDA args :
                  IF args.kind # "ok" THEN args
                  ELSE ParseOk(astSpecialFunction(name.tok.Literal, args.node), args.pos))))

\* The loop of Default.Instruction putting each argument before the others.
InstructionArgs_Reversed(c, i, args) ==
  IF ParserIsEnd(c, i) THEN ParsePanic(NilDereference, i)
  ELSE IF ParserCurrent(c, i).Literal = <<";">> THEN ParseOk(args, ParserAdvance(c, i))
  ELSE Bind(MiniExpression(c, i), LAMBDA x :
         IF x.kind # "ok" THEN x
         ELSE IF ParserIsEnd(c, x.pos) THEN ParsePanic(NilDereference, x.pos)
         ELSE IF ParserCurrent(c, x.pos).Literal = <<",">>
         THEN InstructionArgs_Reversed(c, ParserAdvance(c, x.pos), <<x.node>> \o args)
         ELSE IF ParserCurrent(c, x.pos).Literal = <<";">>
         THEN ParseOk(<<x.node>> \o args, ParserAdvance(c, x.pos))
         ELSE ErrorAtCurrent(c, x.pos, "Expected ',' or ';' after instruction argument"))

\* The loop of Default.Instruction with the arguments parsed so far.
InstructionArgs(c, i, args) ==
  IF ParserIsEnd(c, i) THEN ParsePanic(NilDereference, i)
  ELSE IF ParserCurrent(c, i).Literal = <<";">> THEN ParseOk(args, ParserAdvance(c, i))
  ELSE Bind(MiniExpression(c, i), LAMBDA x :
         IF x.kind # "ok" THEN x
         ELSE IF ParserIsEnd(c, x.pos) THEN ParsePanic(NilDereference, x.pos)
         ELSE IF ParserCurrent(c, x.pos).Literal = <<",">>
         THEN InstructionArgs(c, ParserAdvance(c, x.pos), Append(args, x.node))
         ELSE IF ParserCurrent(c, x.pos).Literal = <<";">>
         THEN ParseOk(Append(args, x.node), ParserAdvance(c, x.pos))
         ELSE ErrorAtCurrent(c, x.pos, "Expected ',' or ';' after instruction argument"))

MiniInstruction(c, i) ==
  Bind(ExpectKind(c, i, Identifier), LAMBDA name :
    IF name.panic THEN ParsePanic(IndexOutOfRange, i)
    ELSE IF ~name.ok THEN ErrorAtCurrent(c, i, "Expected name of the instruction")
    ELSE Bind(InstructionArgs(c, name.pos, <<>>), LAMBDA args :
           IF args.kind # "ok" THEN args
           ELSE ParseOk(astInstruction(name.tok.Literal, args.node), args.pos)))

\* The loop of Default.FunctionBody with the instructions parsed so far:
\* it ends at the end of the tokens as it does at "}".
FunctionBodyLoop(c, i, instructions) ==
  IF ParserIsEnd(c, i) THEN ParseOk(instructions, i)
  ELSE IF ParserCurrent(c, i).Literal = <<"}">>
  THEN ParseOk(instructions, ParserAdvance(c, i))
  ELSE Bind(MiniInstruction(c, i), LAMBDA instr :
         IF instr.kind # "ok" THEN instr
         ELSE IF instr.node.node # "Instruction"
         THEN ParseErr(parserMakeError("Expected instruction", c.filename,
                                       ParserCurrent(c, i).Position), instr.pos)
         ELSE FunctionBodyLoop(c, instr.pos, Append(instructions, instr.node)))

MiniFunctionBody(c, i) ==
  Bind(ExpectLiteral(c, i, <<"{">>), LAMBDA open :
    IF open.panic THEN ParsePanic(IndexOutOfRange, i)
    ELSE IF ~open.ok THEN ErrorAtCurrent(c, i, "Expected { when parsing function body")
    ELSE FunctionBodyLoop(c, open.pos, <<>>))

\* What follows an argument's name in Default.FunctionArgs: an optional "^",
\* then "," or ")".
FunctionArgsLoop(c, i, args) ==
  IF ParserIsEnd(c, i) THEN ParsePanic(NilDereference, i)
  ELSE IF ParserCurrent(c, i).Literal = <<")">> THEN ParseOk(args, ParserAdvance(c, i))
  ELSE Bind(ExpectKind(c, i, Identifier), LAMBDA name :
         IF ~name.ok
         THEN ErrorAtCurrent(c, i, "Expected identifier when parsing function arguments")
         ELSE IF ParserIsEnd(c, name.pos) THEN ParsePanic(NilDereference, name.pos)
         ELSE Bind(ParserCurrent(c, name.pos).Literal = <<"^">>, LAMBDA variadic :
         Bind(IF variadic THEN ParserAdvance(c, name.pos) ELSE name.pos, LAMBDA j :
         Bind(Append(args, astFunctionArgument(name.tok.Literal, variadic)), LAMBDA made :
           IF ParserIsEnd(c, j) THEN ParsePanic(NilDereference, j)
           ELSE IF ParserCurrent(c, j).Literal = <<",">>
           THEN FunctionArgsLoop(c, ParserAdvance(c, j), made)
           ELSE IF ParserCurrent(c, j).Literal = <<")">>
           THEN ParseOk(made, ParserAdvance(c, j))
           ELSE ErrorAtCurrent(c, j, "Expected ',' or ')' after argument")))))

MiniFunctionArgs(c, i) ==
  Bind(ExpectLiteral(c, i, <<"(">>), LAMBDA open :
    IF open.panic THEN ParsePanic(IndexOutOfRange, i)
    ELSE IF ~open.ok
    THEN ErrorAtCurrent(c, i, "Expected '(' when parsing function arguments")
    ELSE FunctionArgsLoop(c, open.pos, <<>>))

MiniFunction(c, i) ==
  Bind(MiniFunctionArgs(c, i), LAMBDA args :
    IF args.kind # "ok" THEN args
    ELSE Bind(MiniFunctionBody(c, args.pos), LAMBDA body :
           IF body.kind # "ok" THEN body
           ELSE ParseOk(astFunction(args.node, body.node), body.pos)))

\* The loop of Default.Array with the elements parsed so far.
ArrayElements(c, i, elements) ==
  IF ParserIsEnd(c, i) THEN ParsePanic(NilDereference, i)
  ELSE IF ParserCurrent(c, i).Literal = <<"]">> THEN ParseOk(elements, ParserAdvance(c, i))
  ELSE Bind(MiniExpression(c, i), LAMBDA x :
         IF x.kind # "ok" THEN x
         ELSE IF ParserIsEnd(c, x.pos) THEN ParsePanic(NilDereference, x.pos)
         ELSE IF ParserCurrent(c, x.pos).Literal = <<"]">>
         THEN ParseOk(Append(elements, x.node), ParserAdvance(c, x.pos))
         ELSE IF ParserCurrent(c, x.pos).Literal = <<",">>
         THEN ArrayElements(c, ParserAdvance(c, x.pos), Append(elements, x.node))
         ELSE ErrorAtCurrent(c, x.pos, "Expected ']' or ',' after array element"))

\* The end of Default.Array: the size declared after "]", read from a
\* Current() that is nil at the end of the tokens.
ArrayFixedSize(c, i, elements) ==
  IF ParserIsEnd(c, i) THEN ParsePanic(NilDereference, i)
  ELSE IF ParserCurrent(c, i).Kind = Number
  THEN Bind(Atoi(ParserCurrent(c, i).Literal), LAMBDA num :
         IF ~num.ok
         THEN ParseErr(parserMakeError("Failed to convert literal into number", c.filename,
                                       ParserCurrent(c, i).Position), i)
         ELSE ParseOk(astArray(elements, TRUE, num.n), ParserAdvance(c, i)))
  ELSE ParseOk(astArray(elements, FALSE, 0), i)

MiniArray(c, i) ==
  Bind(ExpectLiteral(c, i, <<"[">>), LAMBDA open :
    IF open.panic THEN ParsePanic(IndexOutOfRange, i)
    ELSE IF ~open.ok THEN ErrorAtCurrent(c, i, "Expected '[' in the start of array")
    ELSE Bind(ArrayElements(c, open.pos, <<>>), LAMBDA elements :
           IF elements.kind # "ok" THEN elements
           ELSE ArrayFixedSize(c, elements.pos, elements.node)))

MiniExpression(c, i) ==
  IF ParserIsEnd(c, i) THEN ParsePanic(NilDereference, i)
  ELSE Bind(ParserCurrent(c, i), LAMBDA tok :
         IF tok.Kind \in {Number, Char, String} THEN MiniValue(c, i)
         ELSE IF tok.Kind = Identifier THEN MiniReferenceToIdentifier(c, i)
         ELSE IF tok.Kind = SpecialFunction THEN MiniSpecialFunction(c, i)
         ELSE IF tok.Literal = <<"(">> THEN MiniFunction(c, i)
         ELSE IF tok.Literal = <<"[">> THEN MiniArray(c, i)
         ELSE ParseErr(parserMakeError("Unknown token", c.filename, tok.Position), i))

MiniTopLevel(c, i) ==
  Bind(ExpectKind(c, i, Identifier), LAMBDA identifier :
    IF identifier.panic THEN ParsePanic(IndexOutOfRange, i)
    ELSE IF ~identifier.ok THEN ParseNoMatch(i)
    ELSE Bind(MiniExpression(c, identifier.pos), LAMBDA expr :
           IF expr.kind # "ok" THEN expr
           ELSE ParseOk(astTopLevel(identifier.tok.Literal, expr.node), expr.pos)))

\* ------------------------------------------------------------------ parser

\* The mini parsers a parser can hold, by name.
ApplyMini(name, c, i) ==
  CASE name = "TopLevel" -> MiniTopLevel(c, i)

\* One call of a mini parser by Parser.parse: which, the cursor it was
\* given and what it returned.
Tried(name, index, before, res) ==
  [name |-> name, index |-> index, before |-> before, res |-> res]

\* What Parser.parse returns, with the calls it made.
Parsed(res, tried) ==
  [kind |-> res.kind, node |-> res.node, err |-> res.err, pos |-> res.pos, tried |-> tried]

\* Parser.parse whose "Unknown token" error carries no position of a token.
RECURSIVE parseFrom_ErrorWithoutPosition(_, _, _, _, _, _)
parseFrom_ErrorWithoutPosition(minis, k, c, i, tok, tried) ==
  IF k > Len(minis)
  THEN [kind |-> "err", node |-> [node |-> "nil"],
        err |-> [msg |-> "Unknown token", filename |-> c.filename, Line |-> 0, Column |-> 0],
        pos |-> i, tried |-> tried]
  ELSE Bind(ApplyMini(minis[k], c, i), LAMBDA got :
       Bind(Append(tried, Tried(minis[k], k, i, got)), LAMBDA made :
         IF got.kind = "nomatch"
         THEN parseFrom_ErrorWithoutPosition(minis, k + 1, c, got.pos, tok, made)
         ELSE Parsed(got, made)))

\* The loop of Parser.parse from the k-th mini parser; tok is the token the
\* call of parse started at.
RECURSIVE parseFrom(_, _, _, _, _, _)
parseFrom(minis, k, c, i, tok, tried) ==
  IF k > Len(minis)
  THEN Parsed(ParseErr(parserMakeError("Unknown token", c.filename, tok.Position), i), tried)
  ELSE Bind(ApplyMini(minis[k], c, i), LAMBDA got :
       Bind(Append(tried, Tried(minis[k], k, i, got)), LAMBDA made :
         IF got.kind = "nomatch" THEN parseFrom(minis, k + 1, c, got.pos, tok, made)
         ELSE Parsed(got, made)))

parse(minis, c, i) ==
  IF i >= Len(c.tokens) THEN Parsed(ParsePanic(IndexOutOfRange, i), <<>>)
  ELSE parseFrom(minis, 1, c, i, c.tokens[i + 1], <<>>)

\* ------------------------------------------------------------------ state

Nil == "nil"
Writers == {"w"}
FileNames == {"test.asm"}
MainThread == "main"
OtherThread == "other"

VARIABLES
  bytes,        \* l.bytes
  position,     \* *l.position
  on,           \* l.on
  mu,           \* l.mu: the thread holding it, or Nil
  debugOn,      \* l.debugOn
  debugW,       \* l.debugW: a writer or Nil
  debugLogger,  \* l.debugLogger: the writer it logs to, or Nil
  tokenizers,   \* l.tokenizers, by name
  filename,     \* l.filename
  pc,           \* per thread: where it is in its call
  arg,          \* per thread: the arguments of its call
  tokens,       \* per thread: Do's local slice tokens
  ret,          \* per thread: the value its call is returning
  calls,        \* the tokenizer calls of the latest Lexer.tokenize
  moves,        \* the Advance and Backward calls made on the context directly
  debugOut,     \* the writers debug output has reached
  lastOp,       \* the call that returned last
  prevOp,       \* the call that returned before it, when that was a Do
  parser,       \* the fields of a Parser
  pdo,          \* the caller of the parser and what it has seen
  ident         \* a call of token.IsIdentifier: its argument and its result

lexerState == <<bytes, position, on, mu, debugOn, debugW, debugLogger, tokenizers, filename,
                pc, arg, tokens, ret, calls, moves, debugOut, lastOp, prevOp>>

vars == <<bytes, position, on, mu, debugOn, debugW, debugLogger, tokenizers, filename,
          pc, arg, tokens, ret, calls, moves, debugOut, lastOp, prevOp, parser, pdo, ident>>

lexer == <<bytes, position, on, mu, debugOn, debugW, debugLogger, tokenizers, filename>>

Threads == {MainThread, OtherThread}

\* The arguments of a call, with the busy flag when it was issued and, for
\* Do, the cursor its run starts from.
NoArg == [reader |-> <<>>, fails |-> FALSE, name |-> "", index |-> 0, b |-> FALSE,
          busy |-> FALSE, start |-> InitPosition]
\* A returned call: its name, its thread, the busy flag when it was issued,
\* the cursor its run started from and what it returned.
NoOp == [op |-> "none", thread |-> Nil, busy |-> FALSE, start |-> InitPosition, ret |-> NoRet]
Op(name, t, a, r) == [op |-> name, thread |-> t, busy |-> a.busy, start |-> a.start, ret |-> r]

\* newBase, then New (debugging off, no logger) or NewDebug (debugging on,
\* logging to w).
Constructed(inputs) ==
  /\ bytes \in inputs
  /\ position = InitPosition
  /\ on = FALSE
  /\ mu = Nil
  /\ \E w \in Writers \cup {Nil} :
       /\ debugOn = (w # Nil)
       /\ debugW = w
       /\ debugLogger = w
  /\ tokenizers = <<>>
  /\ filename = ""
  /\ pc = [t \in Threads |-> "idle"]
  /\ arg = [t \in Threads |-> NoArg]
  /\ tokens = [t \in Threads |-> <<>>]
  /\ ret = [t \in Threads |-> NoRet]
  /\ calls = <<>>
  /\ moves = <<>>
  /\ debugOut = {}
  /\ lastOp = NoOp
  /\ prevOp = NoOp

\* ------------------------------------------------------------------ parser state

\* parser.New: newBase over toks, debugging off, no mini parsers.
parserNew(toks) ==
  [tokens |-> toks, pos |-> 0, on |-> FALSE, mu |-> Nil, debugOn |-> FALSE,
   debugW |-> Nil, debugLogger |-> Nil, minis |-> <<>>, filename |-> ""]

\* What Parser.Do returns: a tree, an error, or a panic leaving Do.
ParseRet(kind, tree, err) == [kind |-> kind, tree |-> tree, err |-> err]
NilTree == [node |-> "nil", TopLevel |-> <<>>]
NoParseRet == ParseRet("none", NilTree, NoErr)

\* One call of ExpectLiteral or ExpectKind: which, its argument, the cursor
\* before it and what it returned.
Expect(name, a, before, res) == [op |-> name, arg |-> a, before |-> before, res |-> res]
\* The argument of such a call: a literal, or a kind.
LiteralArg(lit) == [lit |-> lit, kind |-> ""]
KindArg(kind) == [lit |-> <<>>, kind |-> kind]
NoExpect == Expect("none", LiteralArg(<<>>), 0, Expected(NilTok, FALSE, 0, FALSE))

\* The caller of the parser: where it is in Do, Do's local topLevel, what
\* the last Do returned, the calls of parse the running Do has made, the
\* Do calls that have returned, and the last Expect call made directly.
NoParse ==
  [pc |-> "idle", topLevel |-> <<>>, ret |-> NoParseRet, parses |-> <<>>,
   rets |-> <<>>, expect |-> NoExpect]

\* A call of token.IsIdentifier: its argument, whether it has been made, and
\* what it returned.
Identified(str, called, r) == [str |-> str, called |-> called, ret |-> r]
\* No caller of the lexer or of the parser calls IsIdentifier itself.
NoIdent == ident = Identified(<<>>, FALSE, FALSE)

\* No parser is used by a caller of the lexer alone.
NoParser == parser = parserNew(<<>>) /\ pdo = NoParse

Init == Constructed(Inputs) /\ NoParser /\ NoIdent

\* A debug print with debugging on dereferences l.debugLogger.
DebugPanics == debugOn /\ debugLogger = Nil
DebugWrites == IF debugOn /\ debugLogger # Nil THEN debugOut \cup {debugLogger} ELSE debugOut

\* Thread t's call op, made with arguments a, returns r.
Return(t, op, a, r) ==
  /\ pc' = [pc EXCEPT ![t] = "idle"]
  /\ ret' = [ret EXCEPT ![t] = NoRet]
  /\ arg' = [arg EXCEPT ![t] = NoArg]
  /\ tokens' = [tokens EXCEPT ![t] = <<>>]
  /\ lastOp' = Op(op, t, a, r)
  /\ prevOp' = IF lastOp.op = "Do" THEN lastOp ELSE NoOp

\* Thread t makes a call while another thread holds l.mu: it waits in
\* l.mu.Lock().
Wait(t, label, a) ==
  /\ pc[t] = "idle"
  /\ mu # Nil
  /\ pc' = [pc EXCEPT ![t] = label]
  /\ arg' = [arg EXCEPT ![t] = a]
  /\ UNCHANGED <<lexer, tokens, ret, calls, moves, parser, pdo, ident, debugOut, lastOp, prevOp>>

\* ------------------------------------------------------------------ Lexer.Do

DoArgs == {[NoArg EXCEPT !.name = f, !.busy = on] : f \in FileNames}

\* Lexer.Do entering its loop without the check for an empty chain.
DoBody_NoEmptyCheck(t, a) ==
  /\ filename' = a.name
  /\ IF DebugPanics
     THEN /\ Return(t, "Do", a, Panic("nil logger"))
          /\ UNCHANGED <<bytes, position, on, mu, debugOn, debugW, debugLogger, tokenizers,
                         calls, moves, parser, pdo, ident, debugOut>>
     ELSE /\ mu' = t
          /\ on' = TRUE
          /\ debugOut' = DebugWrites
          /\ arg' = [arg EXCEPT ![t] = [a EXCEPT !.start = position]]
          /\ tokens' = [tokens EXCEPT ![t] = <<>>]
          /\ pc' = [pc EXCEPT ![t] = "do_loop"]
          /\ ret' = ret
          /\ UNCHANGED <<bytes, position, debugOn, debugW, debugLogger, tokenizers,
                         calls, moves, parser, pdo, ident, lastOp, prevOp>>

\* From l.mu.Lock(): l.filename = filename, the print "Starting lexer...",
\* l.on.Store(true) and the check for an empty chain. A panic of the print
\* leaves through the deferred Unlock alone.
DoBody(t, a) ==
  /\ filename' = a.name
  /\ IF DebugPanics
     THEN /\ Return(t, "Do", a, Panic("nil logger"))
          /\ UNCHANGED <<bytes, position, on, mu, debugOn, debugW, debugLogger, tokenizers,
                         calls, moves, parser, pdo, ident, debugOut>>
     ELSE /\ mu' = t
          /\ on' = TRUE
          /\ debugOut' = DebugWrites
          /\ arg' = [arg EXCEPT ![t] = [a EXCEPT !.start = position]]
          /\ tokens' = [tokens EXCEPT ![t] = <<>>]
          /\ IF Len(tokenizers) = 0
             THEN /\ pc' = [pc EXCEPT ![t] = "do_defer"]
                  /\ ret' = [ret EXCEPT ![t] = Ret("ok", <<>>, NoErr)]
             ELSE /\ pc' = [pc EXCEPT ![t] = "do_loop"]
                  /\ ret' = ret
          /\ UNCHANGED <<bytes, position, debugOn, debugW, debugLogger, tokenizers,
                         calls, moves, parser, pdo, ident, lastOp, prevOp>>

\* Do is called with l.mu free.
Do(t) ==
  /\ pc[t] = "idle"
  /\ mu = Nil
  /\ position.Line <= MaxLine
  /\ \E a \in DoArgs : DoBody(t, a)

\* Do is called with l.mu held, and goes on when it is free.
DoWait(t) ==
  /\ position.Line <= MaxLine
  /\ \E a \in DoArgs : Wait(t, "do_lock", a)

DoWake(t) ==
  /\ pc[t] = "do_lock"
  /\ mu = Nil
  /\ DoBody(t, arg[t])

\* The loop test !c.Eof() and, when it passes, one pass of the loop body.
DoIter(t) ==
  /\ pc[t] = "do_loop"
  /\ IF DebugPanics
     THEN /\ pc' = [pc EXCEPT ![t] = "do_defer"]
          /\ ret' = [ret EXCEPT ![t] = Panic("nil logger")]
          /\ UNCHANGED <<position, tokens, calls, moves, parser, pdo, ident, debugOut>>
     ELSE IF Eof(bytes, position)
     THEN /\ pc' = [pc EXCEPT ![t] = "do_defer"]
          /\ ret' = [ret EXCEPT ![t] = Ret("ok", tokens[t], NoErr)]
          /\ debugOut' = DebugWrites
          /\ UNCHANGED <<position, tokens, calls, moves, parser, pdo, ident>>
     ELSE \E it \in {Iteration(tokenizers, bytes, filename, position)} :
             /\ position' = it.pos
             /\ calls' = it.calls
             /\ moves' = moves
             /\ UNCHANGED <<parser, pdo, ident>>
             /\ debugOut' = DebugWrites
             /\ IF it.err # NoErr
                THEN /\ pc' = [pc EXCEPT ![t] = "do_defer"]
                     /\ ret' = [ret EXCEPT ![t] = Ret("err", <<>>, it.err)]
                     /\ tokens' = tokens
                ELSE /\ tokens' = [tokens EXCEPT ![t] = Append(@, it.tok)]
                     /\ UNCHANGED <<pc, ret>>
  /\ UNCHANGED <<bytes, on, mu, debugOn, debugW, debugLogger, tokenizers, filename,
                 arg, lastOp, prevOp>>

\* The deferred function of Do without its l.on.Store(false).
DoDefer_KeepsBusy(t) ==
  /\ pc[t] = "do_defer"
  /\ pc' = [pc EXCEPT ![t] = "do_unlock"]
  /\ IF DebugPanics
     THEN /\ ret' = [ret EXCEPT ![t] = Panic("nil logger")]
          /\ UNCHANGED debugOut
     ELSE /\ debugOut' = DebugWrites
          /\ ret' = ret
  /\ UNCHANGED <<bytes, position, on, mu, debugOn, debugW, debugLogger, tokenizers, filename,
                 arg, tokens, calls, moves, parser, pdo, ident, lastOp, prevOp>>

\* The deferred function: the print "Lexer ended", then l.on.Store(false).
\* A panic of the print skips the store.
DoDefer(t) ==
  /\ pc[t] = "do_defer"
  /\ pc' = [pc EXCEPT ![t] = "do_unlock"]
  /\ IF DebugPanics
     THEN /\ ret' = [ret EXCEPT ![t] = Panic("nil logger")]
          /\ UNCHANGED <<on, debugOut>>
     ELSE /\ on' = FALSE
          /\ debugOut' = DebugWrites
          /\ ret' = ret
  /\ UNCHANGED <<bytes, position, mu, debugOn, debugW, debugLogger, tokenizers, filename,
                 arg, tokens, calls, moves, parser, pdo, ident, lastOp, prevOp>>

\* The return of Do without the deferred l.mu.Unlock().
DoUnlock_KeepsMutex(t) ==
  /\ pc[t] = "do_unlock"
  /\ Return(t, "Do", arg[t], ret[t])
  /\ UNCHANGED <<bytes, position, on, mu, debugOn, debugW, debugLogger, tokenizers, filename,
                 calls, moves, parser, pdo, ident, debugOut>>

\* The deferred l.mu.Unlock(), and the return.
DoUnlock(t) ==
  /\ pc[t] = "do_unlock"
  /\ mu' = Nil
  /\ Return(t, "Do", arg[t], ret[t])
  /\ UNCHANGED <<bytes, position, on, debugOn, debugW, debugLogger, tokenizers, filename,
                 calls, moves, parser, pdo, ident, debugOut>>

\* ------------------------------------------------------------------ configuration

SetReaderArgs ==
  {[NoArg EXCEPT !.reader = r, !.fails = f, !.busy = on] : r \in Readers, f \in BOOLEAN}

\* Lexer.SetReader from l.mu.Lock() to the deferred Unlock.
SetReaderBody(t, a) ==
  /\ IF on THEN /\ Return(t, "SetReader", a, Panic("lexer is on, can't set reader"))
                /\ bytes' = bytes
     ELSE IF a.fails
     THEN /\ Return(t, "SetReader", a, Ret("err", <<>>, ReadError))
          /\ bytes' = bytes
     ELSE /\ Return(t, "SetReader", a, Ret("ok", <<>>, NoErr))
          /\ bytes' = a.reader
  /\ UNCHANGED <<position, on, mu, debugOn, debugW, debugLogger, tokenizers, filename,
                 calls, moves, parser, pdo, ident, debugOut>>

\* SetReader without l.mu.Lock() and without the check of l.on.
SetReader_Unsynchronised(t) ==
  /\ pc[t] = "idle"
  /\ \E a \in SetReaderArgs :
       /\ ~a.fails
       /\ bytes' = a.reader
       /\ Return(t, "SetReader", a, Ret("ok", <<>>, NoErr))
  /\ UNCHANGED <<position, on, mu, debugOn, debugW, debugLogger, tokenizers, filename,
                 calls, moves, parser, pdo, ident, debugOut>>

SetReader(t) ==
  /\ pc[t] = "idle"
  /\ mu = Nil
  /\ \E a \in SetReaderArgs : SetReaderBody(t, a)

SetReaderWait(t) ==
  /\ mu # Nil
  /\ \E a \in SetReaderArgs : Wait(t, "setreader", a)

SetReaderWake(t) ==
  /\ pc[t] = "setreader"
  /\ mu = Nil
  /\ SetReaderBody(t, arg[t])

DebugSetWriterArgs == {[NoArg EXCEPT !.name = w, !.busy = on] : w \in Writers}

\* Lexer.DebugSetWriter from l.mu.Lock() to the deferred Unlock.
DebugSetWriterBody(t, a) ==
  /\ IF on THEN /\ Return(t, "DebugSetWriter", a, Panic("lexer is on, can't set debug writer"))
                /\ debugW' = debugW
     ELSE /\ Return(t, "DebugSetWriter", a, Ret("ok", <<>>, NoErr))
          /\ debugW' = a.name
  /\ UNCHANGED <<bytes, position, on, mu, debugOn, debugLogger, tokenizers, filename,
                 calls, moves, parser, pdo, ident, debugOut>>

DebugSetWriter(t) ==
  /\ pc[t] = "idle"
  /\ mu = Nil
  /\ \E a \in DebugSetWriterArgs : DebugSetWriterBody(t, a)

DebugSetWriterWait(t) ==
  /\ mu # Nil
  /\ \E a \in DebugSetWriterArgs : Wait(t, "debugsetwriter", a)

DebugSetWriterWake(t) ==
  /\ pc[t] = "debugsetwriter"
  /\ mu = Nil
  /\ DebugSetWriterBody(t, arg[t])

\* Lexer.DebugSetMode takes no mutex: first l.on.Load() ...
DebugSetModeLoad(t) ==
  /\ pc[t] = "idle"
  /\ \E b \in BOOLEAN :
       LET a == [NoArg EXCEPT !.b = b, !.busy = on]
       IN IF on THEN Return(t, "DebugSetMode", a, Panic("lexer is on, can't set debug mode"))
          ELSE /\ pc' = [pc EXCEPT ![t] = "debugsetmode_store"]
               /\ arg' = [arg EXCEPT ![t] = a]
               /\ UNCHANGED <<tokens, ret, lastOp, prevOp>>
  /\ UNCHANGED <<lexer, calls, moves, parser, pdo, ident, debugOut>>

\* ... then l.debugOn.Store(b).
DebugSetModeStore(t) ==
  /\ pc[t] = "debugsetmode_store"
  /\ debugOn' = arg[t].b
  /\ Return(t, "DebugSetMode", arg[t], Ret("ok", <<>>, NoErr))
  /\ UNCHANGED <<bytes, position, on, mu, debugW, debugLogger, tokenizers, filename,
                 calls, moves, parser, pdo, ident, debugOut>>

Customs(chain) == Cardinality({i \in 1..Len(chain) : chain[i] \in CustomTokenizers})
HasDefault(chain) == \E i \in 1..Len(chain) : chain[i] \notin CustomTokenizers

AppendTokenizerArgs == {[NoArg EXCEPT !.name = n, !.busy = on] : n \in CustomTokenizers}
\* The tokenizers registered one by one, those a waiting call brings included.
Registering == Customs(tokenizers) + Cardinality({u \in Threads : pc[u] = "appendtokenizer"})

\* Lexer.AppendTokenizer from l.mu.Lock() to the deferred Unlock.
AppendTokenizerBody(t, a) ==
  /\ IF on THEN /\ Return(t, "AppendTokenizer", a, Panic("lexer is on, can't append tokenizer"))
                /\ tokenizers' = tokenizers
     ELSE /\ Return(t, "AppendTokenizer", a, Ret("ok", <<>>, NoErr))
          /\ tokenizers' = Append(tokenizers, a.name)
  /\ UNCHANGED <<bytes, position, on, mu, debugOn, debugW, debugLogger, filename,
                 calls, moves, parser, pdo, ident, debugOut>>

AppendTokenizer(t) ==
  /\ pc[t] = "idle"
  /\ mu = Nil
  /\ Registering < MaxCustom
  /\ \E a \in AppendTokenizerArgs : AppendTokenizerBody(t, a)

AppendTokenizerWait(t) ==
  /\ Registering < MaxCustom
  /\ \E a \in AppendTokenizerArgs : Wait(t, "appendtokenizer", a)

AppendTokenizerWake(t) ==
  /\ pc[t] = "appendtokenizer"
  /\ mu = Nil
  /\ AppendTokenizerBody(t, arg[t])

\* Default.Append, called once per lexer: its next call of a.AppendTokenizer.
DefaultAppend(t) ==
  /\ \/ pc[t] = "idle" /\ ~HasDefault(tokenizers)
     \/ pc[t] = "defaultappend"
  /\ mu = Nil
  /\ LET a == IF pc[t] = "idle" THEN [NoArg EXCEPT !.index = 1, !.busy = on] ELSE arg[t]
     IN IF on
        THEN /\ Return(t, "Default.Append", a, Panic("lexer is on, can't append tokenizer"))
             /\ tokenizers' = tokenizers
        ELSE /\ tokenizers' = Append(tokenizers, DefaultChain[a.index])
             /\ IF a.index = Len(DefaultChain)
                THEN Return(t, "Default.Append", a, Ret("ok", <<>>, NoErr))
                ELSE /\ pc' = [pc EXCEPT ![t] = "defaultappend"]
                     /\ arg' = [arg EXCEPT ![t] = [a EXCEPT !.index = @ + 1]]
                     /\ UNCHANGED <<tokens, ret, lastOp, prevOp>>
  /\ UNCHANGED <<bytes, position, on, mu, debugOn, debugW, debugLogger, filename,
                 calls, moves, parser, pdo, ident, debugOut>>

\* ------------------------------------------------------------------ cursor calls

\* One call of a cursor method: which, and the cursor before and after it.
Move(name, before, after) == [op |-> name, before |-> before, after |-> after]

\* c.Advance() called on the lexer's context, as the package's tests do.
ctxAdvance ==
  /\ Len(moves) < MaxMoves
  /\ position' = Advance(bytes, position)
  /\ moves' = Append(moves, Move("Advance", position, position'))
  /\ debugOut' = DebugWrites
  /\ UNCHANGED <<bytes, on, mu, debugOn, debugW, debugLogger, tokenizers, filename,
                 pc, arg, tokens, ret, calls, parser, pdo, ident, lastOp, prevOp>>

\* c.Backward() called on the lexer's context.
ctxBackward ==
  /\ Len(moves) < MaxMoves
  /\ position' = Backward(bytes, position)
  /\ moves' = Append(moves, Move("Backward", position, position'))
  /\ debugOut' = DebugWrites
  /\ UNCHANGED <<bytes, on, mu, debugOn, debugW, debugLogger, tokenizers, filename,
                 pc, arg, tokens, ret, calls, parser, pdo, ident, lastOp, prevOp>>

\* One call of c.Slice(start, end): its arguments, the cursor before and
\* after it, and what it returned.
Sliced(start, end, before, after, res) ==
  [op |-> "Slice", before |-> before, after |-> after,
   start |-> start, end |-> end, str |-> res.str, err |-> res.err]
SliceBounds == (0 - 1)..(MaxLen + 1)

\* c.Slice(start, end) called once on the lexer's context, as
\* TestContextSlice does.
ctxSlice ==
  /\ Len(moves) < MaxMoves
  /\ \A k \in 1..Len(moves) : moves[k].op # "Slice"
  /\ \E start \in SliceBounds, end \in SliceBounds :
       moves' = Append(moves, Sliced(start, end, position, position,
                                     Slice(bytes, filename, position, start, end)))
  /\ debugOut' = DebugWrites
  /\ UNCHANGED <<bytes, position, on, mu, debugOn, debugW, debugLogger, tokenizers, filename,
                 pc, arg, tokens, ret, calls, parser, pdo, ident, lastOp, prevOp>>

\* ------------------------------------------------------------------ specifications

\* One caller registers tokenizers and runs the lexer: every call returns
\* before the next is made.
Next ==
  \/ DefaultAppend(MainThread)
  \/ AppendTokenizer(MainThread)
  \/ Do(MainThread)
  \/ DoIter(MainThread)
  \/ DoDefer(MainThread)
  \/ DoUnlock(MainThread)

Spec == Init /\ [][Next]_vars

\* One caller uses the whole interface of a lexer made on a short buffer.
InitApi == Constructed(Readers) /\ NoParser /\ NoIdent

NextApi ==
  \/ DefaultAppend(MainThread)
  \/ AppendTokenizer(MainThread)
  \/ Do(MainThread)
  \/ DoIter(MainThread)
  \/ DoDefer(MainThread)
  \/ DoUnlock(MainThread)
  \/ SetReader(MainThread)
  \/ DebugSetWriter(MainThread)
  \/ DebugSetModeLoad(MainThread)
  \/ DebugSetModeStore(MainThread)

SpecApi == InitApi /\ [][NextApi]_vars

\* Two threads use the same lexer, its tokenizers registered one by one.
NextConc ==
  \E t \in Threads :
    \/ AppendTokenizer(t)
    \/ AppendTokenizerWait(t)
    \/ AppendTokenizerWake(t)
    \/ Do(t)
    \/ DoWait(t)
    \/ DoWake(t)
    \/ DoIter(t)
    \/ DoDefer(t)
    \/ DoUnlock(t)
    \/ SetReader(t)
    \/ SetReaderWait(t)
    \/ SetReaderWake(t)
    \/ DebugSetWriter(t)
    \/ DebugSetWriterWait(t)
    \/ DebugSetWriterWake(t)
    \/ DebugSetModeLoad(t)
    \/ DebugSetModeStore(t)

SpecConc == InitApi /\ [][NextConc]_vars

\* A lexer made by New, shared by two threads.
InitLive == InitApi /\ debugW = Nil

\* One thread runs Do again and again while the other reconfigures the lexer.
NextLive ==
  \/ Do(MainThread)
  \/ DoIter(MainThread)
  \/ DoDefer(MainThread)
  \/ DoUnlock(MainThread)
  \/ SetReader(OtherThread)
  \/ SetReaderWait(OtherThread)
  \/ SetReaderWake(OtherThread)
  \/ DebugSetWriter(OtherThread)
  \/ DebugSetWriterWait(OtherThread)
  \/ DebugSetWriterWake(OtherThread)
  \/ AppendTokenizer(OtherThread)
  \/ AppendTokenizerWait(OtherThread)
  \/ AppendTokenizerWake(OtherThread)

\* The scheduling of the two threads. A thread that can take a step of Do
\* takes it in the end, so a run of Do that can finish does. sync.Mutex hands
\* the lock to a goroutine that has waited in Lock() for long (its starvation
\* mode), so a waiting call is not overtaken for ever by the calls of Do
\* that come later: the waking steps are strongly fair.
FairLive ==
  /\ WF_vars(DoIter(MainThread) \/ DoDefer(MainThread) \/ DoUnlock(MainThread))
  /\ SF_vars(\/ SetReaderWake(OtherThread)
             \/ DebugSetWriterWake(OtherThread)
             \/ AppendTokenizerWake(OtherThread))

SpecLive == InitLive /\ [][NextLive]_vars /\ FairLive

\* A test moves the cursor of a fresh lexer with Advance and Backward.
NextCursor ==
  \/ ctxAdvance
  \/ ctxBackward

SpecCursor == Init /\ [][NextCursor]_vars

\* A test moves the cursor of a fresh lexer forward and slices its buffer.
InitSlice == Constructed(SliceInputs) /\ NoParser /\ NoIdent
NextSlice ==
  \/ ctxAdvance
  \/ ctxSlice

SpecSlice == InitSlice /\ [][NextSlice]_vars

\* The caller of Spec, on buffers that hold character literals.
InitChar == Constructed(CharInputs) /\ NoParser /\ NoIdent
SpecChar == InitChar /\ [][Next]_vars

\* The same caller on buffers with spaces, tabs and newlines.
InitSpace == Constructed(SpaceInputs) /\ NoParser /\ NoIdent
SpecSpace == InitSpace /\ [][Next]_vars

\* ------------------------------------------------------------------ parser actions

\* Parser.reset without the rewind of the cursor.
reset_KeepsPos(p, fname) == [p EXCEPT !.filename = fname]

reset(p, fname) == [p EXCEPT !.pos = 0, !.filename = fname]

\* A debug print with debugging on dereferences p.debugLogger.
ParserDebugPanics == parser.debugOn /\ parser.debugLogger = Nil

\* The context Do hands to the mini parsers.
ParserCtx == ParserContext(parser.tokens, parser.filename)

\* One call of Parser.parse by Do: the cursor it started at and its result.
Dispatch(start, res) == [start |-> start, res |-> res]

\* d.Append(p) of mini.Default: AppendParser(d.TopLevel).
ParserDefaultAppend ==
  /\ pdo.pc = "idle"
  /\ parser.mu = Nil
  /\ Len(parser.minis) < MaxMinis
  /\ IF parser.on
     THEN /\ pdo' = [pdo EXCEPT !.ret = ParseRet("panic", NilTree,
                                                 ParsePanic("parser is on", parser.pos).err)]
          /\ parser' = parser
     ELSE /\ parser' = [parser EXCEPT !.minis = Append(@, "TopLevel")]
          /\ pdo' = pdo
  /\ UNCHANGED <<lexerState, ident>>

\* Parser.Do down to its loop: the lock, reset, the busy flag, and the
\* return of an empty tree when no mini parser is registered.
ParserDo ==
  /\ pdo.pc = "idle"
  /\ parser.mu = Nil
  /\ Len(pdo.rets) < MaxDo
  /\ \E fname \in FileNames :
       IF ParserDebugPanics
       THEN /\ parser' = [reset(parser, fname) EXCEPT !.mu = MainThread]
            /\ pdo' = [pdo EXCEPT !.pc = "do_defer", !.topLevel = <<>>, !.parses = <<>>,
                                  !.ret = ParseRet("panic", NilTree,
                                                   ParsePanic(NilDereference, 0).err)]
       ELSE /\ parser' = [reset(parser, fname) EXCEPT !.mu = MainThread, !.on = TRUE]
            /\ pdo' = IF Len(parser.minis) = 0
                      THEN [pdo EXCEPT !.pc = "do_defer", !.topLevel = <<>>, !.parses = <<>>,
                                       !.ret = ParseRet("ok", astTree(<<>>), NoErr)]
                      ELSE [pdo EXCEPT !.pc = "do_loop", !.topLevel = <<>>, !.parses = <<>>,
                                       !.ret = NoParseRet]
  /\ UNCHANGED <<lexerState, ident>>

\* The pass of Do's loop that does not append the node parse returned.
ParserIter_DropsNode ==
  /\ pdo.pc = "do_loop"
  /\ IF ParserIsEnd(ParserCtx, parser.pos)
     THEN /\ parser' = parser
          /\ pdo' = [pdo EXCEPT !.pc = "do_defer",
                                !.ret = ParseRet("ok", astTree(pdo.topLevel), NoErr)]
     ELSE \E n \in {parse(parser.minis, ParserCtx, parser.pos)} :
            /\ parser' = [parser EXCEPT !.pos = n.pos]
            /\ pdo' = IF n.kind = "ok"
                      THEN [pdo EXCEPT !.parses = Append(@, Dispatch(parser.pos, n))]
                      ELSE [pdo EXCEPT !.pc = "do_defer",
                                       !.parses = Append(@, Dispatch(parser.pos, n)),
                                       !.ret = ParseRet(n.kind, NilTree, n.err)]
  /\ UNCHANGED <<lexerState, ident>>

\* The loop test !c.IsEnd() and, when it passes, one call of parse.
ParserIter ==
  /\ pdo.pc = "do_loop"
  /\ IF ParserIsEnd(ParserCtx, parser.pos)
     THEN /\ parser' = parser
          /\ pdo' = [pdo EXCEPT !.pc = "do_defer",
                                !.ret = ParseRet("ok", astTree(pdo.topLevel), NoErr)]
     ELSE \E n \in {parse(parser.minis, ParserCtx, parser.pos)} :
            /\ parser' = [parser EXCEPT !.pos = n.pos]
            /\ pdo' = IF n.kind = "ok"
                      THEN [pdo EXCEPT !.topLevel = Append(@, n.node),
                                       !.parses = Append(@, Dispatch(parser.pos, n))]
                      ELSE [pdo EXCEPT !.pc = "do_defer",
                                       !.parses = Append(@, Dispatch(parser.pos, n)),
                                       !.ret = ParseRet(n.kind, NilTree, n.err)]
  /\ UNCHANGED <<lexerState, ident>>

\* Do's deferred calls and its return: the busy flag cleared, the mutex
\* unlocked, the result handed to the caller.
ParserDefer ==
  /\ pdo.pc = "do_defer"
  /\ parser' = [parser EXCEPT !.on = FALSE, !.mu = Nil]
  /\ pdo' = [pdo EXCEPT !.pc = "idle",
                        !.rets = Append(@, [ret |-> pdo.ret, minis |-> parser.minis])]
  /\ UNCHANGED <<lexerState, ident>>

\* The arguments the calls of ExpectLiteral and ExpectKind are made with.
ExpectLiterals == {<<"(">>, <<"a">>}
ExpectKinds == {Identifier, Separator}

\* c.ExpectLiteral(lit) called on the parser's context.
ctxExpectLiteral ==
  /\ pdo.pc = "idle"
  /\ \E lit \in ExpectLiterals :
       \E e \in {ExpectLiteral(ParserCtx, parser.pos, lit)} :
         /\ parser' = [parser EXCEPT !.pos = e.pos]
         /\ pdo' = [pdo EXCEPT !.expect = Expect("ExpectLiteral", LiteralArg(lit), parser.pos, e)]
  /\ UNCHANGED <<lexerState, ident>>

\* c.ExpectKind(kind) called on the parser's context.
ctxExpectKind ==
  /\ pdo.pc = "idle"
  /\ \E kind \in ExpectKinds :
       \E e \in {ExpectKind(ParserCtx, parser.pos, kind)} :
         /\ parser' = [parser EXCEPT !.pos = e.pos]
         /\ pdo' = [pdo EXCEPT !.expect = Expect("ExpectKind", KindArg(kind), parser.pos, e)]
  /\ UNCHANGED <<lexerState, ident>>

\* ------------------------------------------------------------------ parser inputs

\* A token of a stream before it is given its place: literal and kind.
Tok(lit, kind) == [Literal |-> lit, Kind |-> kind]
IdA == Tok(<<"a">>, Identifier)
IdB == Tok(<<"b">>, Identifier)
Num2 == Tok(<<"2">>, Number)
Num12 == Tok(<<"1", "2">>, Number)
StrS == Tok(<<"s">>, String)
At == Tok(<<"a", "t">>, SpecialFunction)
Sep(ch) == Tok(<<ch>>, Separator)

\* The tokens of a stream as a lexer hands them over: the k-th token on
\* line 1, column k.
Stream(s) ==
  [k \in 1..Len(s) |->
     New(s[k].Literal, s[k].Kind, Copy([InitPosition EXCEPT !.Column = k, !.Position = k]))]

Prefixes(s) == {SubSeq(s, 1, n) : n \in 0..Len(s)}

\* Every short stream over one token of each kind and every separator.
TokenAlphabet == {IdA, Num2, StrS, At} \cup {Tok(s, Separator) : s \in Separators}
ShortStreams == {Stream(s) : s \in SeqsUpTo(TokenAlphabet, MaxTokens)}

\* The tokens of a comma-separated list of items, each a token sequence.
RECURSIVE CommaList(_)
CommaList(items) ==
  IF Len(items) = 0 THEN <<>>
  ELSE IF Len(items) = 1 THEN items[1]
  ELSE items[1] \o <<Sep(",")>> \o CommaList(Tail(items))

\* The concatenation of token sequences.
RECURSIVE Concat(_)
Concat(items) == IF Len(items) = 0 THEN <<>> ELSE items[1] \o Concat(Tail(items))

\* The source of an expression that is one token, and the node it denotes.
SimpleExprs == {Num2, Num12, IdB, StrS}
ExprNode(t) ==
  IF t.Kind = Identifier THEN astReferenceToIdentifier(t.Literal)
  ELSE astValue(t.Literal, t.Kind)

\* Array literals "a [ e1 , ... , en ]" followed by nothing, by a number,
\* or by the start of another statement.
ArrayTails == {<<>>, <<Num2>>, <<Num12>>, <<IdA, Num2>>}
ArrayCase(elems, tail) ==
  [tokens |-> Stream(<<IdA, Sep("[")>> \o CommaList([k \in 1..Len(elems) |-> <<elems[k]>>])
                       \o <<Sep("]")>> \o tail),
   elements |-> [k \in 1..Len(elems) |-> ExprNode(elems[k])],
   tail |-> tail]
ArrayCases == {ArrayCase(e, t) : e \in SeqsUpTo(SimpleExprs, MaxElems), t \in ArrayTails}

\* Function literals "a ( a1 [^] , ... ) { instruction* }" given by the
\* nodes they denote.
ArgNodes ==
  {astFunctionArgument(<<"a">>, FALSE), astFunctionArgument(<<"a">>, TRUE),
   astFunctionArgument(<<"b">>, FALSE)}
InstrNodes ==
  {astInstruction(<<"a">>, [k \in 1..Len(e) |-> ExprNode(e[k])]) :
     e \in {<<>>, <<Num2>>, <<Num2, IdB>>}}
FunctionNodes ==
  {astFunction(a, b) : a \in SeqsUpTo(ArgNodes, MaxArgs), b \in SeqsUpTo(InstrNodes, MaxInstrs)}

\* The tokens that spell a node.
ExprSource(n) ==
  IF n.node = "ReferenceToIdentifier" THEN <<Tok(n.Identifier, Identifier)>>
  ELSE <<Tok(n.Literal, n.Kind)>>
ArgSource(a) ==
  IF a.Variadic THEN <<Tok(a.Name, Identifier), Sep("^")>> ELSE <<Tok(a.Name, Identifier)>>
InstrSource(n) ==
  <<Tok(n.Name, Identifier)>> \o CommaList([k \in 1..Len(n.Args) |-> ExprSource(n.Args[k])])
    \o <<Sep(";")>>
FunctionHead(f) ==
  <<IdA, Sep("(")>> \o CommaList([k \in 1..Len(f.Args) |-> ArgSource(f.Args[k])])
    \o <<Sep(")"), Sep("{")>>
FunctionSource(f) ==
  FunctionHead(f) \o Concat([k \in 1..Len(f.Body) |-> InstrSource(f.Body[k])]) \o <<Sep("}")>>

FunctionCases == {[tokens |-> Stream(FunctionSource(f)), function |-> f] : f \in FunctionNodes}
\* The streams that end inside a function body: at least "{" is there, the
\* closing "}" is not.
TruncatedBodies ==
  UNION {{Stream(SubSeq(FunctionSource(f), 1, n)) :
            n \in Len(FunctionHead(f))..(Len(FunctionSource(f)) - 1)} : f \in FunctionNodes}
GrammarStreams ==
  {c.tokens : c \in ArrayCases} \cup UNION {Prefixes(c.tokens) : c \in FunctionCases}

\* ------------------------------------------------------------------ parser specifications

\* The lexer is not used by a caller of the parser alone.
LexerUnused == Constructed({<<>>}) /\ debugW = Nil

\* A caller registers the default mini parsers and runs Do on short streams
\* of every kind of token.
InitParser ==
  /\ LexerUnused
  /\ NoIdent
  /\ parser \in {parserNew(ts) : ts \in ShortStreams}
  /\ pdo = NoParse

NextParser ==
  \/ ParserDefaultAppend
  \/ ParserDo
  \/ ParserIter
  \/ ParserDefer

SpecParser == InitParser /\ [][NextParser]_vars

\* The same caller on array literals, function literals and their prefixes.
InitGrammar ==
  /\ LexerUnused
  /\ NoIdent
  /\ parser \in {parserNew(ts) : ts \in GrammarStreams}
  /\ pdo = NoParse

SpecGrammar == InitGrammar /\ [][NextParser]_vars

\* Function literals "a ( ) { a [2 ,] q ; }" whose instruction has for its
\* last argument a String or Char token q spelled like a delimiter, and
\* their prefixes.
DelimiterLiterals == {<<",">>, <<";">>, <<")">>, <<"}">>, <<"^">>}
QuotedValues == {astValue(d, k) : d \in DelimiterLiterals, k \in {String, Char}}
QuotedInstrs ==
  {astInstruction(<<"a">>, e \o <<q>>) : e \in {<<>>, <<astValue(<<"2">>, Number)>>},
                                         q \in QuotedValues}
QuotedCases ==
  {[tokens |-> Stream(FunctionSource(astFunction(<<>>, <<i>>))),
    function |-> astFunction(<<>>, <<i>>)] : i \in QuotedInstrs}

InitQuoted ==
  /\ LexerUnused
  /\ NoIdent
  /\ parser \in {parserNew(ts) : ts \in UNION {Prefixes(c.tokens) : c \in QuotedCases}}
  /\ pdo = NoParse

SpecQuoted == InitQuoted /\ [][NextParser]_vars

\* A test calls ExpectLiteral and ExpectKind on the context of a fresh parser.
NextExpect ==
  \/ ctxExpectLiteral
  \/ ctxExpectKind

SpecExpect == InitParser /\ [][NextExpect]_vars

\* ------------------------------------------------------------------ identifiers

\* The strings IsIdentifier is called with: every short string of letters,
\* a digit, the underscore, a separator and a byte of no kind, and runs of
\* a letter about the longest length allowed, as they are, headed by a
\* digit, and ended by a byte of no kind.
IdentAlphabet == {"a", "t", "1", "_", ";", "@"}
Repeat(ch, n) == [k \in 1..n |-> ch]
LongLengths == (MaxIdentifierLen - 1)..(MaxIdentifierLen + 1)
LongStrings ==
  UNION {{Repeat("a", n), <<"1">> \o Repeat("a", n - 1), Repeat("a", n - 1) \o <<"@">>,
          Repeat("_", n)} : n \in LongLengths}
IdentInputs == SeqsUpTo(IdentAlphabet, MaxLen) \cup LongStrings \cup Separators \cup SpecialFunctions

\* token.IsIdentifier(str) called by a test.
CallIsIdentifier ==
  /\ ~ident.called
  /\ ident' = Identified(ident.str, TRUE, IsIdentifier(ident.str))
  /\ UNCHANGED <<lexerState, parser, pdo>>

InitIdent ==
  /\ LexerUnused
  /\ NoParser
  /\ ident \in {Identified(str, FALSE, FALSE) : str \in IdentInputs}

NextIdent == CallIsIdentifier

SpecIdent == InitIdent /\ [][NextIdent]_vars

\* ------------------------------------------------------------------ properties

\* The literals and kinds of a token list, in order.
LitKinds(toks) == [i \in 1..Len(toks) |-> <<toks[i].Literal, toks[i].Kind>>]

\* What Lexer.Do returns when it runs from cursor p with no panic.
Outcome(chain, b, fname, p) ==
  IF Len(chain) = 0 THEN Ret("ok", <<>>, NoErr) ELSE DoLoop(chain, b, fname, p, <<>>).ret

\* The latest returned call is a Do that ran the default chain over the
\* whole buffer, from the cursor newBase makes.
DefaultRun ==
  /\ lastOp.op = "Do"
  /\ lastOp.start = InitPosition
  /\ tokenizers = DefaultChain

\* C1: an AppendTokenizer call issued while a Do call on the same lexer is in
\* progress (the busy flag is set) ends in a panic and leaves the registered
\* chain as it was.
C1_AppendTokenizerDuringDoPanics ==
  [][\A t \in Threads :
       (pc[t] = "appendtokenizer" /\ arg[t].busy /\ pc'[t] = "idle")
         => (lastOp'.ret.kind = "panic" /\ tokenizers' = tokenizers)]_vars

\* C2: when Default.Identifier reports no match, the cursor's offset, line and
\* column are what they were before it was called, whatever byte follows the
\* run it scanned.
C2_IdentifierNoMatchRestoresCursor ==
  \A i \in 1..Len(calls) :
    (calls[i].name = "Identifier" /\ calls[i].res.noMatch /\ calls[i].res.err = NoErr)
      => calls[i].res.pos = calls[i].before

\* C3: a token appended to Do's token list reads the same literal, kind and
\* position (offset, line, column) after every later step of the run.
C3_AppendedTokenNeverChanges ==
  [][\A t \in Threads : \A i \in 1..Len(tokens[t]) :
       i <= Len(tokens'[t])
         => Deref(tokens'[t][i], position') = Deref(tokens[t][i], position)]_vars

\* C4: two calls of Do in succession, with no reconfiguration between them,
\* return the same literals and kinds in the same order.
C4_DoTwiceSameTokens ==
  (lastOp.op = "Do" /\ prevOp.op = "Do")
    => LitKinds(lastOp.ret.tokens) = LitKinds(prevOp.ret.tokens)

\* C5: a Do that follows a completed Do and then a successful SetReader(r)
\* starts at offset 0, line 1, column 1 of r.
C5_DoAfterSetReaderStartsAtOrigin ==
  \A t \in Threads :
    (/\ pc[t] \in {"do_loop", "do_defer", "do_unlock"}
     /\ lastOp.op = "SetReader" /\ lastOp.ret.kind = "ok"
     /\ prevOp.op = "Do")
      => arg[t].start.Position = 0 /\ arg[t].start.Line = 1 /\ arg[t].start.Column = 1

\* A double quote, bytes that are not double quotes, a double quote.
Quoted(b) ==
  /\ Len(b) >= 2
  /\ b[1] = QUOTE
  /\ b[Len(b)] = QUOTE
  /\ \A i \in 2..(Len(b) - 1) : b[i] # QUOTE

\* C6: on a buffer that is a double quote, a possibly empty s with no double
\* quote and a double quote, Default.String called at offset 0 returns one
\* String token whose literal is s and leaves the cursor at the end of the
\* buffer, right after the closing quote.
C6_StringYieldsQuotedLiteral ==
  \A i \in 1..Len(calls) :
    (calls[i].name = "String" /\ calls[i].before.Position = 0 /\ Quoted(bytes))
      => /\ calls[i].res.err = NoErr
         /\ ~calls[i].res.noMatch
         /\ calls[i].res.tok.Kind = String
         /\ calls[i].res.tok.Literal = SubSeq(bytes, 2, Len(bytes) - 1)
         /\ calls[i].res.pos.Position = Len(bytes)

\* The double quotes of b.
Quotes(b) == {i \in 1..Len(b) : b[i] = QUOTE}
\* The last double quote of b opens a string that nothing closes: quotes open
\* and close in turn, and their number is odd.
UnclosedQuote(b) == Cardinality(Quotes(b)) % 2 = 1

\* C7: when the buffer holds an opening double quote with no closing one
\* before its end, Do with the default chain returns an error and no tokens.
C7_UnterminatedStringIsError ==
  (DefaultRun /\ UnclosedQuote(bytes))
    => (lastOp.ret.kind = "err" /\ lastOp.ret.tokens = <<>>)

\* C8: Do with the default chain on the buffer "at" returns one token, of
\* kind SpecialFunction and literal "at", and leaves the cursor at offset 2.
C8_AtIsSpecialFunction ==
  (DefaultRun /\ bytes = <<"a", "t">>)
    => /\ lastOp.ret.kind = "ok"
       /\ LitKinds(lastOp.ret.tokens) = <<(<<(<<"a", "t">>), SpecialFunction>>)>>
       /\ position.Position = 2

\* C9: what Do returns is decided by the buffer, the chain and the cursor it
\* starts from alone: it is the same with debugging on or off, however the
\* lexer came to that mode (New, NewDebug, DebugSetMode, DebugSetWriter).
C9_DebugModeDoesNotChangeOutcome ==
  lastOp.op = "Do"
    => lastOp.ret = Outcome(tokenizers, bytes, filename, lastOp.start)

\* C10: each pass of Do's loop calls the registered tokenizers in
\* registration order at one offset, every call but the last declining; when
\* the last call claims the offset, what it returned is the one element the
\* pass appends to the token list, and no later tokenizer is called.
C10_FirstClaimWinsInRegistrationOrder ==
  [][\A t \in Threads :
       (pc[t] = "do_loop" /\ ~Eof(bytes, position) /\ ~DebugPanics)
         => LET n == Len(calls')
                last == calls'[n].res
            IN /\ n \in 1..Len(tokenizers)
               /\ \A i \in 1..n :
                    /\ calls'[i].index = i
                    /\ calls'[i].name = tokenizers[i]
                    /\ calls'[i].before.Position = calls'[1].before.Position
               /\ \A i \in 1..(n - 1) : calls'[i].res.noMatch /\ calls'[i].res.err = NoErr
               /\ IF last.err = NoErr /\ ~last.noMatch
                  THEN tokens'[t] = Append(tokens[t], last.tok)
                  ELSE tokens'[t] = tokens[t]]_vars

\* A pass in which the first tokenizer of the chain claimed the offset and a
\* tokenizer registered after it, never called, claims that offset too.
C10_Witness_LaterClaimerNotCalled ==
  /\ pc[MainThread] = "do_loop"
  /\ Len(calls) = 1
  /\ ~calls[1].res.noMatch /\ calls[1].res.err = NoErr
  /\ Len(tokens[MainThread]) >= 1
  /\ tokens[MainThread][Len(tokens[MainThread])] = calls[1].res.tok
  /\ \E j \in 2..Len(tokenizers) :
       LET r == Apply(tokenizers[j], bytes, filename, calls[1].before)
       IN ~r.noMatch /\ r.err = NoErr

\* Every tokenizer of the chain was called and declined.
AllDeclined(made, chain) ==
  /\ Len(made) = Len(chain)
  /\ \A i \in 1..Len(made) : made[i].res.noMatch /\ made[i].res.err = NoErr

\* C11: when every registered tokenizer declines at a byte that is neither
\* whitespace nor end of input, Do returns no tokens and the error "Unknown
\* character" with the line and column the cursor had at that byte (line 1,
\* column 1 for the first byte of the buffer).
C11_UnknownCharacterAtCursor ==
  [][\A t \in Threads :
       (/\ pc[t] = "do_loop" /\ ~Eof(bytes, position) /\ ~DebugPanics
        /\ AllDeclined(calls', tokenizers)
        /\ ~Eof(bytes, calls'[1].before)
        /\ ~IsSpace(Current(bytes, calls'[1].before)))
         => /\ pc'[t] = "do_defer"
            /\ ret'[t] = Ret("err", <<>>,
                             makeError("Unknown character", filename, calls'[1].before))]_vars

\* The calls that reconfigure a lexer.
Reconfigurations ==
  {"SetReader", "AppendTokenizer", "Default.Append", "DebugSetWriter", "DebugSetMode"}

\* C12: when Do has returned (tokens, an error, or the empty result of a
\* lexer without tokenizers) the busy flag is false, and a SetReader,
\* AppendTokenizer, DebugSetWriter or DebugSetMode call made next does not
\* panic.
C12_BusyFlagClearAfterDo ==
  /\ (/\ lastOp.op = "Do" /\ lastOp.ret.kind \in {"ok", "err"}
      /\ \A t \in Threads : pc[t] = "idle")
       => ~on
  /\ (/\ lastOp.op \in Reconfigurations
      /\ prevOp.op = "Do" /\ prevOp.ret.kind \in {"ok", "err"})
       => lastOp.ret.kind # "panic"

\* Do has returned an error and the SetReader made next has succeeded.
C12_Witness_SetReaderAfterFailedDo ==
  /\ prevOp.op = "Do" /\ prevOp.ret.kind = "err"
  /\ lastOp.op = "SetReader" /\ lastOp.ret.kind = "ok"
  /\ ~on

\* The line of offset off in b: 1 plus the newlines before it.
LineOf(b, off) == 1 + Cardinality({i \in 1..off : b[i] = NEWLINE})
\* The column of offset off in b: 1 plus the bytes between the last newline
\* before it (or the start of b) and it.
ColumnOf(b, off) ==
  LET before == {i \in 1..off : b[i] = NEWLINE}
  IN IF before = {} THEN 1 + off
     ELSE off + 1 - (CHOOSE i \in before : \A j \in before : j <= i)

\* The calls from the i-th to the j-th are all calls of name.
AllMoves(name, i, j) == \A x \in i..j : moves[x].op = name

\* C13: after Advance calls alone from the start of the buffer, the cursor's
\* line is 1 plus the newlines before its offset and its column is 1 plus the
\* bytes between the last of them (or the start) and its offset.
C13_AdvanceCountsLinesAndColumns ==
  AllMoves("Advance", 1, Len(moves))
    => /\ position.Line = LineOf(bytes, position.Position)
       /\ position.Column = ColumnOf(bytes, position.Position)

\* C14: k Advance calls from the start, n more that do not meet the end of
\* the buffer, then n Backward calls leave the cursor's offset, line and
\* column as they were after the first k.
C14_BackwardRestoresCheckpoint ==
  \A k \in 0..Len(moves) : \A n \in 1..Len(moves) :
    (/\ Len(moves) = k + 2 * n
     /\ k + n < Len(bytes)
     /\ AllMoves("Advance", 1, k + n)
     /\ AllMoves("Backward", k + n + 1, k + 2 * n))
      => position = moves[k + 1].before

\* C15: after any Advance and Backward calls the cursor's line and column
\* are both at least 1.
C15_LineAndColumnAtLeastOne ==
  position.Line >= 1 /\ position.Column >= 1

\* C16: Advance at the end of the buffer and Backward at its start change
\* nothing of the cursor; any other Advance adds 1 to the offset and any
\* other Backward takes 1 from it; the offset stays within 0..len(buffer),
\* and Current is the sentinel exactly at offset len(buffer).
C16_OffsetMovesByOneWithinBuffer ==
  [][LET m == moves'[Len(moves')]
     IN /\ Len(moves') = Len(moves) + 1
        /\ (m.op = "Advance" /\ Eof(bytes, position)) => position' = position
        /\ (m.op = "Advance" /\ ~Eof(bytes, position))
             => position'.Position = position.Position + 1
        /\ (m.op = "Backward" /\ Sof(position)) => position' = position
        /\ (m.op = "Backward" /\ ~Sof(position))
             => position'.Position = position.Position - 1
        /\ position'.Position \in 0..Len(bytes)
        /\ (Current(bytes, position') = NUL) <=> (position'.Position = Len(bytes))]_vars

\* An Advance made at the end of the buffer, a Backward made at its start
\* and a call of each that moved the cursor have all been made.
C16_Witness_BothEndsAndBetween ==
  /\ \E i \in 1..Len(moves) :
       moves[i].op = "Advance" /\ Eof(bytes, moves[i].before) /\ moves[i].after = moves[i].before
  /\ \E i \in 1..Len(moves) :
       moves[i].op = "Backward" /\ Sof(moves[i].before) /\ moves[i].after = moves[i].before
  /\ \E i \in 1..Len(moves) :
       moves[i].op = "Advance" /\ moves[i].after.Position = moves[i].before.Position + 1
  /\ \E i \in 1..Len(moves) :
       moves[i].op = "Backward" /\ moves[i].after.Position = moves[i].before.Position - 1

\* C17: with no tokenizer registered, Do returns an empty result and no
\* error whatever the buffer holds, leaves the cursor where it was and the
\* busy flag false.
C17_NoTokenizersIsNoOp ==
  (/\ lastOp.op = "Do" /\ tokenizers = <<>>
   /\ \A t \in Threads : pc[t] = "idle")
    => /\ lastOp.ret = Ret("ok", <<>>, NoErr)
       /\ position = lastOp.start
       /\ ~on

\* Do has returned on a lexer with a non-empty buffer and no tokenizer.
C17_Witness_DoWithoutTokenizers ==
  /\ lastOp.op = "Do" /\ tokenizers = <<>>
  /\ pc[MainThread] = "idle"
  /\ Len(bytes) = MaxLen
  /\ lastOp.ret.kind = "ok"

\* A non-empty buffer of whitespace bytes alone.
WhitespaceOnly(b) == Len(b) >= 1 /\ \A i \in 1..Len(b) : IsSpace(b[i])

\* C18: with the default chain, Do on the empty buffer returns an empty token
\* list and no error, and Do on a non-empty buffer of whitespace alone
\* returns an error and no tokens.
C18_EmptyOkWhitespaceOnlyError ==
  DefaultRun
    => /\ bytes = <<>> => lastOp.ret = Ret("ok", <<>>, NoErr)
       /\ WhitespaceOnly(bytes) => (lastOp.ret.kind = "err" /\ lastOp.ret.tokens = <<>>)

\* Do with the default chain has returned the error "Unknown character" on a
\* buffer of a space and a newline.
C18_Witness_WhitespaceOnlyError ==
  /\ DefaultRun
  /\ bytes = <<" ", NEWLINE>>
  /\ lastOp.ret.kind = "err"
  /\ lastOp.ret.err.msg = "Unknown character"

\* The byte of b at offset off, or the sentinel past its end.
ByteAt(b, off) == IF off < Len(b) THEN b[off + 1] ELSE NUL

\* C19: Default.Char declines, leaving the cursor, unless the current byte is
\* a backtick; on a backtick, a letter and a backtick it returns a Char token
\* whose literal is the letter and leaves the cursor three bytes further; on
\* a backtick followed by anything else (a byte that is no letter, no closing
\* backtick, the end of the buffer) it returns an error, and Do returns that
\* error and no tokens.
C19_CharMatcher ==
  [][\A t \in Threads :
       (pc[t] = "do_loop" /\ ~Eof(bytes, position) /\ ~DebugPanics)
         => \A i \in 1..Len(calls') :
              calls'[i].name = "Char"
                => LET off == calls'[i].before.Position
                       res == calls'[i].res
                       opens == ByteAt(bytes, off) = BACKTICK
                       wellFormed == /\ IsLetter(ByteAt(bytes, off + 1))
                                     /\ ByteAt(bytes, off + 2) = BACKTICK
                   IN /\ ~opens => (res.noMatch /\ res.err = NoErr /\ res.pos = calls'[i].before)
                      /\ (opens /\ wellFormed)
                           => /\ ~res.noMatch /\ res.err = NoErr
                              /\ res.tok.Kind = Char
                              /\ res.tok.Literal = <<ByteAt(bytes, off + 1)>>
                              /\ res.pos.Position = off + 3
                      /\ (opens /\ ~wellFormed)
                           => /\ res.err # NoErr
                              /\ res.tok = NilTok
                              /\ pc'[t] = "do_defer"
                              /\ ret'[t] = Ret("err", <<>>, res.err)]_vars

\* Default.Char has returned a Char token and left the cursor three bytes
\* further.
C19_Witness_CharToken ==
  \E i \in 1..Len(calls) :
    /\ calls[i].name = "Char"
    /\ calls[i].res.pos.Position = calls[i].before.Position + 3
    /\ calls[i].res.tok.Kind = Char
    /\ calls[i].res.tok.Literal = <<"a">>

\* The latest returned call is a Do, run from the cursor newBase makes, whose
\* chain starts with the tests' single-byte tokenizer, over a buffer of the
\* byte it claims alone.
SingleByteRun ==
  /\ lastOp.op = "Do"
  /\ lastOp.start = InitPosition
  /\ Len(tokenizers) >= 1 /\ tokenizers[1] = "testTokenizer_a"
  /\ \A i \in 1..Len(bytes) : bytes[i] = "a"

\* C20: on a buffer of n bytes without whitespace, each claimed by a
\* single-byte tokenizer that copies the cursor position after its own
\* Advance, Do returns n tokens and the k-th has offset k.
C20_TokenOffsetsCountAdvances ==
  SingleByteRun
    => /\ lastOp.ret.kind = "ok"
       /\ Len(lastOp.ret.tokens) = Len(bytes)
       /\ \A k \in 1..Len(lastOp.ret.tokens) :
            Deref(lastOp.ret.tokens[k], position).Position.Position = k

\* Such a run over a buffer of the greatest length has returned its tokens.
C20_Witness_FullBuffer ==
  /\ SingleByteRun
  /\ Len(bytes) = MaxLen
  /\ Len(lastOp.ret.tokens) = MaxLen

\* C21: an error returned by a tokenizer ends Do at once: that call is the
\* last of the pass, the cursor stays where the tokenizer left it, and Do
\* returns the error and no tokens, whatever tokens the run had made.
C21_TokenizerErrorAbortsDo ==
  [][\A t \in Threads :
       (pc[t] = "do_loop" /\ ~Eof(bytes, position) /\ ~DebugPanics)
         => \A i \in 1..Len(calls') :
              calls'[i].res.err # NoErr
                => /\ i = Len(calls')
                   /\ position' = calls'[i].res.pos
                   /\ pc'[t] = "do_defer"
                   /\ ret'[t] = Ret("err", <<>>, calls'[i].res.err)]_vars

\* A tokenizer that is not the last of the chain has returned an error in a
\* run that had made a token, with bytes left after the cursor.
C21_Witness_ErrorAfterToken ==
  /\ pc[MainThread] = "do_defer"
  /\ ret[MainThread].kind = "err"
  /\ Len(tokens[MainThread]) >= 1
  /\ Len(calls) >= 1 /\ Len(calls) < Len(tokenizers)
  /\ calls[Len(calls)].res.err = ret[MainThread].err
  /\ ~Eof(bytes, position)

\* A Do of the parser has returned to its caller, which has made no call since.
ParserReturned == pdo.pc = "idle" /\ Len(pdo.rets) >= 1
\* The last Do that returned: what it returned and the chain it ran with.
LastDo == pdo.rets[Len(pdo.rets)]
\* The last Do ran with the default chain of mini parsers.
DefaultMinis == ParserReturned /\ Len(LastDo.minis) >= 1

\* C22: when the tokens end inside a function body, before its closing "}",
\* Do with the default mini parsers returns a syntax error and no tree.
C22_TruncatedBodyIsSyntaxError ==
  (DefaultMinis /\ parser.tokens \in TruncatedBodies)
    => /\ LastDo.ret.kind = "err"
       /\ LastDo.ret.tree = NilTree

\* C23: Do with the default mini parsers returns a tree or a syntax error
\* that carries a line and a column, for every token list; it never panics.
C23_DoReturnsTreeOrSyntaxError ==
  DefaultMinis
    => \/ LastDo.ret.kind = "ok" /\ LastDo.ret.tree.node = "Tree"
       \/ /\ LastDo.ret.kind = "err"
          /\ LastDo.ret.tree = NilTree
          /\ LastDo.ret.err.Line >= 1
          /\ LastDo.ret.err.Column >= 1

\* The size an array literal declares by the tokens after its "]".
TailFixed(tail) == Len(tail) >= 1 /\ tail[1].Kind = Number
TailSize(tail) == IF tail = <<Num2>> THEN 2 ELSE IF tail = <<Num12>> THEN 12 ELSE 0

\* C24: "a [ e1 , ... , en ]" parses to an Array of e1..en in order, fixed
\* with the value of the next token as its size when that token is a Number,
\* and not fixed with size 0 otherwise, also when "]" is the last token.
C24_ArrayElementsAndFixedSize ==
  DefaultMinis
    => \A c \in ArrayCases :
         parser.tokens = c.tokens
           => /\ Len(pdo.parses) >= 1
              /\ pdo.parses[1].res.kind = "ok"
              /\ pdo.parses[1].res.node =
                   astTopLevel(<<"a">>, astArray(c.elements, TailFixed(c.tail), TailSize(c.tail)))
              /\ pdo.parses[1].res.pos = Len(c.tokens) - Len(c.tail)
                                           + (IF TailFixed(c.tail) THEN 1 ELSE 0)

\* C25: "a ( a1 [^] , ... ) { instruction* }" gives a tree of exactly one
\* TopLevel node named a whose expression is the Function with the arguments
\* in order, each variadic exactly when "^" follows its name, and the
\* instructions in order, each with its arguments in order.
C25_FunctionLiteralParses ==
  DefaultMinis
    => \A c \in FunctionCases :
         parser.tokens = c.tokens
           => LastDo.ret = ParseRet("ok", astTree(<<astTopLevel(<<"a">>, c.function)>>), NoErr)

\* Do has returned the tree of a function with two arguments, one of them
\* variadic, and two instructions, one of them with two arguments.
C25_Witness_TwoArgsTwoInstructions ==
  /\ DefaultMinis
  /\ \E c \in FunctionCases : parser.tokens = c.tokens
  /\ LastDo.ret.kind = "ok"
  /\ Len(LastDo.ret.tree.TopLevel) = 1
  /\ LET f == LastDo.ret.tree.TopLevel[1].Expression
     IN /\ f.node = "Function"
        /\ Len(f.Args) = 2 /\ f.Args[1].Variadic /\ ~f.Args[2].Variadic
        /\ f.Args[1].Name # f.Args[2].Name
        /\ Len(f.Body) = 2
        /\ Len(f.Body[1].Args) = 2 /\ f.Body[1].Args[1] # f.Body[1].Args[2]
        /\ f.Body[1] # f.Body[2]

\* The calls of parse the last Do made follow one another through the
\* tokens: the first starts at index 0 and each next one where the one
\* before it stopped.
Contiguous(parses) ==
  \A k \in 1..Len(parses) :
    parses[k].start = (IF k = 1 THEN 0 ELSE parses[k - 1].res.pos)

\* C26: when Do succeeds, its tree holds exactly one top-level node for each
\* call of the chain that returned a node, in the order of the statements in
\* the tokens, and the cursor is at the end of the token list.
C26_OneNodePerDispatchCursorAtEnd ==
  (ParserReturned /\ LastDo.ret.kind = "ok")
    => /\ Len(LastDo.ret.tree.TopLevel) = Len(pdo.parses)
       /\ \A k \in 1..Len(pdo.parses) :
            /\ pdo.parses[k].res.kind = "ok"
            /\ LastDo.ret.tree.TopLevel[k] = pdo.parses[k].res.node
       /\ Contiguous(pdo.parses)
       /\ parser.pos = Len(parser.tokens)

\* C26 for a parser with at least one mini parser registered, or with no
\* tokens: without mini parsers Do returns an empty tree at once and the
\* cursor stays at index 0.
C26_Amended_WithMiniParsers ==
  (ParserReturned /\ LastDo.ret.kind = "ok"
     /\ (Len(LastDo.minis) >= 1 \/ Len(parser.tokens) = 0))
    => /\ Len(LastDo.ret.tree.TopLevel) = Len(pdo.parses)
       /\ \A k \in 1..Len(pdo.parses) :
            /\ pdo.parses[k].res.kind = "ok"
            /\ LastDo.ret.tree.TopLevel[k] = pdo.parses[k].res.node
       /\ Contiguous(pdo.parses)
       /\ parser.pos = Len(parser.tokens)

\* Do has returned a tree of two statements.
C26_Witness_TwoStatements ==
  /\ ParserReturned
  /\ LastDo.ret.kind = "ok"
  /\ Len(LastDo.ret.tree.TopLevel) = 2
  /\ LastDo.ret.tree.TopLevel[1] # LastDo.ret.tree.TopLevel[2]

\* C27: when every registered mini parser declines the token Do's cursor is
\* at, each of them leaves the cursor where it was and Do fails, with no
\* tree, with "Unknown token" and the line and column of that token; the
\* default mini parsers decline every token that is no Identifier.
C27_AllDeclineIsUnknownToken ==
  [][(pdo.pc = "do_loop" /\ ~ParserIsEnd(ParserCtx, parser.pos))
       => /\ (/\ Len(pdo'.parses) = Len(pdo.parses) + 1
              /\ LET made == pdo'.parses[Len(pdo'.parses)].res.tried
                 IN /\ Len(made) = Len(parser.minis)
                    /\ \A k \in 1..Len(made) : made[k].res.kind = "nomatch")
               => /\ \A k \in 1..Len(parser.minis) :
                       LET call == pdo'.parses[Len(pdo'.parses)].res.tried[k]
                       IN call.before = parser.pos /\ call.res.pos = parser.pos
                  /\ parser'.pos = parser.pos
                  /\ pdo'.pc = "do_defer"
                  /\ pdo'.ret =
                       ParseRet("err", NilTree,
                                [msg |-> "Unknown token", filename |-> parser.filename,
                                 Line |-> parser.tokens[parser.pos + 1].Position.Line,
                                 Column |-> parser.tokens[parser.pos + 1].Position.Column])
          /\ parser.tokens[parser.pos + 1].Kind # Identifier
               => /\ Len(pdo'.parses) = Len(pdo.parses) + 1
                  /\ \A k \in 1..Len(parser.minis) :
                       pdo'.parses[Len(pdo'.parses)].res.tried[k].res.kind = "nomatch"
                  /\ pdo'.ret.kind = "err"
                  /\ pdo'.ret.err.msg = "Unknown token"]_vars

\* Two registered mini parsers have declined a token after the first
\* statement, and Do has returned the error.
C27_Witness_SecondStatementDeclined ==
  /\ ParserReturned
  /\ Len(LastDo.minis) = 2
  /\ LastDo.ret.kind = "err"
  /\ LastDo.ret.err.msg = "Unknown token"
  /\ parser.pos = 2
  /\ Len(pdo.parses) = 2
  /\ Len(pdo.parses[2].res.tried) = 2
  /\ \A k \in 1..2 : pdo.parses[2].res.tried[k].res.kind = "nomatch"

\* The token the call recorded in x was made on satisfies its argument.
Satisfies(toks, x) ==
  /\ x.before < Len(toks)
  /\ IF x.op = "ExpectLiteral" THEN toks[x.before + 1].Literal = x.arg.lit
     ELSE toks[x.before + 1].Kind = x.arg.kind

\* C28: a call of ExpectLiteral or ExpectKind succeeds exactly when the
\* literal, or the kind, of the current token equals its argument; when it
\* succeeds it returns that token and moves the cursor forward by one, and
\* when it does not the cursor stays where it was.
C28_ExpectAdvancesIffSatisfied ==
  [][pdo'.expect # pdo.expect
       => LET x == pdo'.expect
          IN /\ x.before = parser.pos
             /\ x.res.ok <=> Satisfies(parser.tokens, x)
             /\ x.res.ok => /\ x.res.tok = parser.tokens[parser.pos + 1]
                            /\ ~x.res.panic
                            /\ parser'.pos = parser.pos + 1
             /\ ~x.res.ok => /\ x.res.tok = NilTok
                             /\ parser'.pos = parser.pos]_vars

\* After a call that succeeded, a call of the other kind has failed on the
\* second token and left the cursor on it.
C28_Witness_SuccessThenFailure ==
  /\ pdo.expect.op = "ExpectLiteral"
  /\ pdo.expect.before = 1
  /\ ~pdo.expect.res.ok /\ ~pdo.expect.res.panic
  /\ parser.pos = 1
  /\ parser.tokens[1].Kind = Identifier
  /\ Len(parser.tokens) >= 2

\* C29: two calls of Do one after the other on the same parser, with no
\* mini parser registered between them, return the same tree or the same
\* error.
C29_ParserDoTwiceSameResult ==
  \A k \in 1..(Len(pdo.rets) - 1) :
    pdo.rets[k].minis = pdo.rets[k + 1].minis
      => pdo.rets[k].ret = pdo.rets[k + 1].ret

\* Do has returned twice with the default mini parsers: a tree of one
\* statement both times, the first run having left the cursor at the end.
C29_Witness_TwoRunsOneStatement ==
  /\ Len(pdo.rets) = 2
  /\ pdo.rets[1].minis = pdo.rets[2].minis
  /\ Len(pdo.rets[1].minis) >= 1
  /\ pdo.rets[2].ret.kind = "ok"
  /\ Len(pdo.rets[2].ret.tree.TopLevel) = 1

\* C30: IsIdentifier(s) is true exactly when s has between 1 and 255
\* characters, does not start with a digit, holds letters, digits and
\* underscores only, and is neither a separator nor the name of a special
\* function.
C30_IsIdentifierRule ==
  ident.called
    => (ident.ret <=>
          /\ Len(ident.str) >= 1
          /\ Len(ident.str) <= 255
          /\ ~IsDigit(ident.str[1])
          /\ \A k \in 1..Len(ident.str) :
               IsLetter(ident.str[k]) \/ IsDigit(ident.str[k]) \/ ident.str[k] = "_"
          /\ \A sep \in {";", ",", "[", "]", "{", "}", "(", ")", "^"} : ident.str # <<sep>>
          /\ ident.str # <<"a", "t">>)

\* IsIdentifier has accepted a string of the longest length allowed.
C30_Witness_LongestAccepted ==
  /\ ident.called
  /\ ident.ret
  /\ Len(ident.str) = 255

\* C31: Slice(start, end) returns the bytes at offsets start..end-1 exactly
\* when 0 <= start <= end <= len(buffer), and an error and the empty string
\* in every other case; it does not move the cursor.
C31_SliceBoundsAndFrame ==
  \A k \in 1..Len(moves) :
    moves[k].op = "Slice"
      => LET m == moves[k]
             inside == 0 <= m.start /\ m.start <= m.end /\ m.end <= Len(bytes)
         IN /\ inside <=> m.err = NoErr
            /\ inside => m.str = [i \in 1..(m.end - m.start) |-> bytes[m.start + i]]
            /\ ~inside => m.str = <<>> /\ m.err.msg # ""
            /\ m.after = m.before

\* A slice of two bytes that does not start at the start of the buffer has
\* been taken with the cursor moved away from the start.
C31_Witness_PartialSlice ==
  \E k \in 1..Len(moves) :
    /\ moves[k].op = "Slice"
    /\ moves[k].err = NoErr
    /\ moves[k].start = 1 /\ moves[k].end = 3
    /\ moves[k].str[1] # bytes[1]
    /\ moves[k].before.Position = 2

\* ------------------------------------------------------------------ C32..C35: two threads

\* Thread u is inside Do, between its l.on.Store(true) and its return.
DoRunning(u) == pc[u] \in {"do_loop", "do_defer", "do_unlock"}

\* C32: from the moment Do has set the busy flag until it returns, no step of
\* another thread's SetReader, AppendTokenizer or DebugSetWriter changes the
\* bytes, the tokenizer list or the debug writer.
C32_NoReconfigurationDuringDo ==
  [][(\E u \in Threads : DoRunning(u))
       => UNCHANGED <<bytes, tokenizers, debugW>>]_vars

\* One thread is in the loop of Do with a token made, the other has called
\* SetReader with a different buffer and waits for the mutex.
C32_Witness_SetReaderWaitsForDo ==
  \E u \in Threads, v \in Threads :
    /\ pc[u] = "do_loop" /\ Len(tokens[u]) > 0 /\ on /\ mu = u
    /\ pc[v] = "setreader" /\ arg[v].reader # bytes /\ ~arg[v].fails

\* C33: DebugSetMode either panics or takes effect entirely before a run of Do
\* starts or after it ends: no step changes the debug mode while the busy
\* flag is true.
C33_DebugModeFixedWhileBusy ==
  [][on => debugOn' = debugOn]_vars

\* Thread u holds l.mu inside Do.
DoHolds(u) == mu = u /\ DoRunning(u)

\* C34: two calls of Do never overlap: at most one is past l.mu.Lock(), a
\* step of the cursor is made by the call that holds the mutex while the
\* other has not started, and whenever the busy flag is true exactly one Do
\* holds the mutex.
C34_DoCallsNeverOverlap ==
  /\ \A u \in Threads, v \in Threads : DoRunning(u) /\ DoRunning(v) => u = v
  /\ \A u \in Threads : DoRunning(u) => mu = u
  /\ on => \E u \in Threads : DoHolds(u)

\* Thread t has called SetReader, AppendTokenizer or DebugSetWriter and is in
\* its l.mu.Lock().
Blocked(t) == pc[t] \in {"setreader", "appendtokenizer", "debugsetwriter"}

\* C35: with fair scheduling, a SetReader, AppendTokenizer or DebugSetWriter
\* call that waits for the mutex while another thread runs Do eventually
\* returns or panics.
C35_BlockedCallEventuallyReturns ==
  Blocked(OtherThread) ~> pc[OtherThread] = "idle"

\* A SetReader called while Do was running (the busy flag was set when the
\* call was made) has returned without error after Do gave the mutex back.
C35_Witness_SetReaderReturnedAfterWait ==
  /\ lastOp.op = "SetReader" /\ lastOp.thread = OtherThread
  /\ lastOp.busy /\ lastOp.ret.kind = "ok"
  /\ prevOp.op = "Do" /\ Len(prevOp.ret.tokens) > 0

\* ------------------------------------------------------------------ C36: progress of Do

\* The call k of an iteration claimed: it returned a token.
Claimed(made, k) == ~made[k].res.noMatch /\ made[k].res.err = NoErr

\* C36: with the default chain every pass of Do's loop either ends the run
\* with an error or leaves the cursor at a strictly greater offset, within the
\* buffer; a tokenizer that claims has consumed at least one byte; so the
\* offsets at the start of successive passes never decrease and Do ends after
\* at most as many passes as the buffer has bytes.
C36_EveryIterationAdvances ==
  [][\A t \in Threads :
       (/\ pc[t] = "do_loop" /\ ~Eof(bytes, position) /\ ~DebugPanics
        /\ tokenizers = DefaultChain)
         => /\ \/ pc'[t] = "do_defer" /\ ret'[t].kind = "err"
               \/ /\ pc'[t] = "do_loop"
                  /\ position'.Position > position.Position
                  /\ Len(tokens'[t]) = Len(tokens[t]) + 1
            /\ position'.Position <= Len(bytes)
            /\ \A k \in 1..Len(calls') :
                 Claimed(calls', k)
                   => calls'[k].res.pos.Position > calls'[k].before.Position]_vars

\* Do with the default chain is in its third pass on a buffer of three bytes:
\* two tokens made, the second by a tokenizer tried after Identifier, and the
\* cursor not yet at the end.
C36_Witness_ThirdIteration ==
  \E t \in Threads :
    /\ pc[t] = "do_loop" /\ tokenizers = DefaultChain
    /\ Len(tokens[t]) = 2 /\ tokens[t][2].Kind # Identifier
    /\ ~Eof(bytes, position)

\* ------------------------------------------------------------------ C37: delimiters

\* C37: only tokens of kind Separator delimit. An instruction argument that
\* is a String or Char token spelled ",", ";", ")", "}" or "^" is parsed as
\* the Value of that literal and kind, so the function literal around it
\* gives the tree of one TopLevel node with that instruction.
C37_QuotedDelimiterIsValue ==
  DefaultMinis
    => \A c \in QuotedCases :
         parser.tokens = c.tokens
           => LastDo.ret = ParseRet("ok", astTree(<<astTopLevel(<<"a">>, c.function)>>), NoErr)

\* ------------------------------------------------------------------ C38: whitespace

\* b with the byte w put in at offset g.
Insert(b, g, w) == SubSeq(b, 1, g) \o <<w>> \o SubSeq(b, g + 1, Len(b))

\* The offsets of b next to the whitespace that the passes of Do's loop skip
\* from cursor p on: the bytes between the tokens, not those a tokenizer
\* has consumed.
RECURSIVE Skipped(_, _)
Skipped(b, p) ==
  IF Eof(b, p) THEN {}
  ELSE Bind(skipWhitespace(b, p), LAMBDA s :
         Bind(tokenize(DefaultChain, b, "", s), LAMBDA t :
           LET before == IF s.Position > p.Position THEN p.Position..s.Position ELSE {}
           IN IF t.err # NoErr THEN before
              ELSE Bind(skipWhitespace(b, t.pos), LAMBDA e :
                     before
                       \cup (IF e.Position > t.pos.Position
                             THEN t.pos.Position..e.Position ELSE {})
                       \cup Skipped(b, e))))

\* Where whitespace is added: before the first token, after the last one,
\* or next to whitespace between tokens.
Gaps(b) == {0, Len(b)} \cup Skipped(b, InitPosition)

====
